---- MODULE Spec2Model ----
(***************************************************************************)
(* Verification model of the AWS Lambda FastAPI-style template:            *)
(*   - the per-resource connection cache of the service adapters           *)
(*     (services/storage.py, services/sqs.py, services/dynamodb.py),       *)
(*   - the request dispatcher, the response envelope and the error         *)
(*     normalization layer (app.py, decorators.py, exceptions.py,          *)
(*     models.py).                                                         *)
(***************************************************************************)
EXTENDS Integers, Sequences, FiniteSets, TLC

(***************************************************************************)
(* Bounds                                                                  *)
(***************************************************************************)
\* Adapter instances that may be allocated in one process.
MaxHandles == 2
\* uuid4 values one execution context draws for uploaded files.
MaxUploads == 1
\* Users one execution context creates through POST /users.
MaxCreated == 2
\* Requests one execution context sends to the queue and the table.
MaxRequests == 2

(***************************************************************************)
(* Connection cache: values                                                *)
(***************************************************************************)
\* The three cached adapters: StorageService, SQSService, DynamoDBService.
Adapters == {"storage", "sqs", "dynamodb"}

\* Environment variable that supplies the default resource key of an adapter.
EnvVar(cls) ==
    CASE cls = "storage"  -> "DATA_BUCKET"
      [] cls = "sqs"      -> "SQS_QUEUE_URL"
      [] cls = "dynamodb" -> "DYNAMODB_TABLE"

\* Resource keys (bucket names, queue URLs, table names).
Keys == {"k1", "k2"}
\* None / unset variable / empty string: every falsy value of `x or y`.
NoKey == ""
\* Attribute that was never assigned on an instance.
Unset == "<unset>"
\* No object.
None == 0

\* Callers (in-flight invocations) constructing adapters.
Threads == {"a", "b"}

\* Python's `a or b` on optional strings.
Or(a, b) == IF a # NoKey THEN a ELSE b

\* An instance right after super().__new__(cls): no attribute set.
NewInstance(cls) ==
    [cls |-> cls, initialized |-> FALSE, name |-> Unset, client |-> None,
     table |-> Unset]

IdleThread ==
    [pc |-> "idle", arg |-> NoKey, key |-> NoKey,
     instance |-> None, err |-> "", name |-> Unset, client |-> None,
     valid |-> FALSE]

\* A caller whose cls(arg) ended in an exception holds no handle.
Raised(err) == [IdleThread EXCEPT !.pc = "raised", !.err = err]

\* A caller whose cls(arg) returned: it holds the instance it asked for under
\* key.  History: name and client record the attributes the instance had when
\* it was handed out, valid that no clear of key has happened since.
Done(key, id, obj) ==
    [IdleThread EXCEPT !.pc = "done", !.key = key, !.instance = id,
                       !.name = obj.name, !.client = obj.client,
                       !.valid = TRUE]

\* JSON null / Python None as a value.
Null == [type |-> "null"]
\* An optional argument that is given (Null: left out or None).
Arg(v) == [type |-> "arg", v |-> v]
\* No route function has run yet / no response has been produced yet.
NoOutcome == [kind |-> "none"]
NoResponse == [kind |-> "none"]
\* No event is being handled.
NoEvent == [source |-> "none"]
\* An S3 bucket without objects.
EmptyBucket == {}
\* An environment variable that is not set.
NotSet == "<not set>"

VARIABLES
    service,      \* the adapter class this process exercises (its module)
    env,          \* os.environ[EnvVar(service)]: a key, or NoKey when unset
    connections,  \* _bucket_connections / _queue_connections / _table_connections
    heap,         \* adapter instances: object id -> attributes
    nextId,       \* next fresh object identity
    thr,          \* per caller: position inside cls(arg), locals, result
    phase,        \* dispatcher state of the current invocation
    event,        \* the inbound event of the current invocation
    route,        \* the route function RouteMatch resolved
    outcome,      \* what validation / the route function produced
    response,     \* what lambda_handler gave back for the last event (for a
                  \* directly called adapter method: the log record it wrote)
    calls,        \* route functions invoked for the current event
    s3,           \* the object store: bucket name -> set of objects
    uploads,      \* uuid4 values drawn so far
    created,      \* users POST /users has created so far
    osenv,        \* os.environ: FROM_EMAIL, ADMIN_EMAIL
    aws           \* the queue, the table and the requests sent to them

cacheVars == <<service, env, connections, heap, nextId, thr>>
apiVars == <<phase, event, route, outcome, response, calls, s3, uploads,
             created, osenv, aws>>
vars == <<service, env, connections, heap, nextId, thr,
          phase, event, route, outcome, response, calls, s3, uploads, created,
          osenv, aws>>

Handles == DOMAIN heap

EmptyCache == [k \in Keys |-> None]

\* A dispatcher that has handled nothing yet.
InitDispatcher ==
    /\ event = NoEvent
    /\ route = ""
    /\ outcome = NoOutcome
    /\ response = NoResponse
    /\ calls = 0
    /\ uploads = 0
    /\ created = 0
    /\ aws = [queue |-> {}, table |-> {}, requests |-> 0]

InitCache ==
    /\ service \in Adapters
    /\ env \in Keys \cup {NoKey}
    /\ connections = EmptyCache
    /\ heap = <<>>
    /\ nextId = 1
    /\ thr = [t \in Threads |-> IdleThread]
    /\ phase = "Idle"
    /\ InitDispatcher
    /\ s3 = [b \in Keys |-> EmptyBucket]
    /\ osenv = [FROM_EMAIL |-> NotSet, ADMIN_EMAIL |-> NotSet]

\* The process-wide state a construction reads and writes.
Machine ==
    [service |-> service, env |-> env, connections |-> connections,
     heap |-> heap, nextId |-> nextId]

SetMachine(m) ==
    /\ service' = m.service
    /\ env' = m.env
    /\ connections' = m.connections
    /\ heap' = m.heap
    /\ nextId' = m.nextId

ReturnedPcs == {"idle", "done", "raised"}
Returned(t) == thr[t].pc \in ReturnedPcs
Quiet == \A t \in Threads : Returned(t)

(***************************************************************************)
(* cls(arg): __new__ followed by __init__ on the returned instance.        *)
(* Each statement maps the process state m and the caller's frame f to     *)
(* their successors.                                                       *)
(***************************************************************************)
\* Faulty variant: an unresolved name falls back to a built-in default.
new_resolve_default_key(m, arg) ==
    LET resolved_name == Or(Or(arg, m.env), "k1") IN
    [IdleThread EXCEPT !.pc = "new_check", !.arg = arg, !.key = resolved_name]

\* __new__, name resolution: resolved_name = bucket_name or os.getenv(...);
\* raise ValueError when it is empty.
new_resolve(m, arg) ==
    LET resolved_name == Or(arg, m.env) IN
    IF resolved_name = NoKey
    THEN Raised("ValueError")
    ELSE [IdleThread EXCEPT !.pc = "new_check", !.arg = arg, !.key = resolved_name]

\* Faulty variant: the cache is never consulted.
new_check_always_creates(m, f) ==
    [m |-> m, f |-> [f EXCEPT !.pc = "new_create"]]

\* __new__: if resolved_name in _bucket_connections
new_check(m, f) ==
    [m |-> m,
     f |-> [f EXCEPT !.pc = IF m.connections[f.key] # None
                            THEN "new_get" ELSE "new_create"]]

\* __new__: return _bucket_connections[resolved_name]
new_get(m, f) ==
    LET cached == m.connections[f.key] IN
    [m |-> m,
     f |-> IF cached # None
           THEN [f EXCEPT !.pc = "init_check", !.instance = cached]
           ELSE Raised("KeyError")]

\* __new__: instance = super().__new__(cls)
new_create(m, f) ==
    [m |-> [m EXCEPT !.heap = m.heap @@ (m.nextId :> NewInstance(m.service)),
                     !.nextId = m.nextId + 1],
     f |-> [f EXCEPT !.pc = "new_insert", !.instance = m.nextId]]

\* __new__: _bucket_connections[resolved_name] = instance; return instance
new_insert(m, f) ==
    [m |-> [m EXCEPT !.connections[f.key] = f.instance],
     f |-> [f EXCEPT !.pc = "init_check"]]

\* __init__: if hasattr(self, "_initialized"): return
init_check(m, f) ==
    [m |-> m,
     f |-> IF m.heap[f.instance].initialized
           THEN Done(f.key, f.instance, m.heap[f.instance])
           ELSE [f EXCEPT !.pc = "init_flag"]]

\* __init__: self._initialized = True
init_flag(m, f) ==
    [m |-> [m EXCEPT !.heap[f.instance].initialized = TRUE],
     f |-> [f EXCEPT !.pc = "init_name"]]

\* Faulty variant: the name is always taken from the environment.
init_name_env_only(m, f) ==
    [m |-> [m EXCEPT !.heap[f.instance].name = m.env],
     f |-> [f EXCEPT !.pc = "init_client"]]

\* __init__: self.bucket_name = bucket_name or os.getenv("DATA_BUCKET")
init_name(m, f) ==
    [m |-> [m EXCEPT !.heap[f.instance].name = Or(f.arg, m.env)],
     f |-> [f EXCEPT !.pc = "init_client"]]

\* __init__: self.s3_client = boto3.client("s3"), a fresh client object (the
\* n-th client bound to this instance); DynamoDBService goes on to bind
\* self.table.  When boto3 raises (ok = FALSE: no region, unreadable
\* credentials, ...) the exception leaves cls(arg) and the instance stays
\* as it is.
init_client(m, f, ok) ==
    IF ~ok
    THEN [m |-> m, f |-> Raised("BotoError")]
    ELSE LET m2 == [m EXCEPT !.heap[f.instance].client = @ + 1] IN
         [m |-> m2,
          f |-> IF m.service = "dynamodb"
                THEN [f EXCEPT !.pc = "init_table"]
                ELSE Done(f.key, f.instance, m2.heap[f.instance])]

\* DynamoDBService.__init__: self.table = self.dynamodb.Table(self.table_name)
init_table(m, f) ==
    LET m2 == [m EXCEPT !.heap[f.instance].table = m.heap[f.instance].name] IN
    [m |-> m2, f |-> Done(f.key, f.instance, m2.heap[f.instance])]

\* One statement of cls(arg).
Step(m, f, ok) ==
    CASE f.pc = "new_check"   -> new_check(m, f)
      [] f.pc = "new_get"     -> new_get(m, f)
      [] f.pc = "new_create"  -> new_create(m, f)
      [] f.pc = "new_insert"  -> new_insert(m, f)
      [] f.pc = "init_check"  -> init_check(m, f)
      [] f.pc = "init_flag"   -> init_flag(m, f)
      [] f.pc = "init_name"   -> init_name(m, f)
      [] f.pc = "init_client" -> init_client(m, f, ok)
      [] f.pc = "init_table"  -> init_table(m, f)
      [] OTHER                -> [m |-> m, f |-> f]

\* The model allocates at most MaxHandles instances.
CanStep(m, f) == f.pc = "new_create" => m.nextId <= MaxHandles

(***************************************************************************)
(* A caller t executing cls(arg) statement by statement                    *)
(***************************************************************************)
Exec(t, pc, ok) ==
    /\ thr[t].pc = pc
    /\ CanStep(Machine, thr[t])
    /\ LET r == Step(Machine, thr[t], ok) IN
       /\ SetMachine(r.m)
       /\ thr' = [thr EXCEPT ![t] = r.f]
    /\ UNCHANGED apiVars

NewResolve(t, arg) ==
    /\ Returned(t)
    /\ thr' = [thr EXCEPT ![t] = new_resolve(Machine, arg)]
    /\ UNCHANGED <<service, env, connections, heap, nextId>>
    /\ UNCHANGED apiVars

NewCheck(t) == Exec(t, "new_check", TRUE)
NewGet(t) == Exec(t, "new_get", TRUE)
NewCreate(t) == Exec(t, "new_create", TRUE)
NewInsert(t) == Exec(t, "new_insert", TRUE)
InitCheck(t) == Exec(t, "init_check", TRUE)
InitFlag(t) == Exec(t, "init_flag", TRUE)
InitName(t) == Exec(t, "init_name", TRUE)
InitClient(t) == Exec(t, "init_client", TRUE)
InitClientFails(t) == Exec(t, "init_client", FALSE)
InitTable(t) == Exec(t, "init_table", TRUE)

(***************************************************************************)
(* clear_connections / clear_connection                                    *)
(***************************************************************************)
\* History only: the results handed out for the cleared keys are no longer
\* the current handles of their keys.
Invalidate(keys) ==
    [t \in Threads |->
       IF thr[t].pc = "done" /\ thr[t].key \in keys
       THEN [thr[t] EXCEPT !.valid = FALSE] ELSE thr[t]]

\* _bucket_connections.clear()
clear_all(m) == [m EXCEPT !.connections = EmptyCache]

\* Faulty variant: the clear also tears down the removed instance.
clear_one_drops_client(m, key) ==
    LET cached == m.connections[key] IN
    IF cached # None
    THEN [m EXCEPT !.heap[cached].initialized = FALSE,
                   !.heap[cached].client = None,
                   !.connections[key] = None]
    ELSE m

\* if bucket_name in cache: delattr(instance, "_initialized") if present;
\* del cache[bucket_name]
clear_one(m, key) ==
    LET cached == m.connections[key] IN
    IF cached # None
    THEN [m EXCEPT !.heap[cached].initialized = FALSE,
                   !.connections[key] = None]
    ELSE m

clear_connections ==
    /\ SetMachine(clear_all(Machine))
    /\ thr' = Invalidate(Keys)
    /\ UNCHANGED apiVars

clear_connection(key) ==
    /\ SetMachine(clear_one(Machine, key))
    /\ thr' = Invalidate({key})
    /\ UNCHANGED apiVars

\* os.environ[VAR] = value / os.environ.pop(VAR)
SetEnv(value) ==
    /\ env # value
    /\ env' = value
    /\ UNCHANGED <<service, connections, heap, nextId, thr>>
    /\ UNCHANGED apiVars

(***************************************************************************)
(* Specifications                                                          *)
(***************************************************************************)
\* Sequential use: one construction or clear at a time (a Lambda execution
\* context handling its invocations one after the other, the test suites).
NextSeq ==
    \/ \E t \in Threads, arg \in Keys \cup {NoKey} : Quiet /\ NewResolve(t, arg)
    \/ \E t \in Threads : NewCheck(t)
    \/ \E t \in Threads : NewGet(t)
    \/ \E t \in Threads : NewCreate(t)
    \/ \E t \in Threads : NewInsert(t)
    \/ \E t \in Threads : InitCheck(t)
    \/ \E t \in Threads : InitFlag(t)
    \/ \E t \in Threads : InitName(t)
    \/ \E t \in Threads : InitClient(t)
    \/ \E t \in Threads : InitClientFails(t)
    \/ \E t \in Threads : InitTable(t)
    \/ Quiet /\ clear_connections
    \/ \E key \in Keys : Quiet /\ clear_connection(key)
    \/ \E value \in Keys \cup {NoKey} : Quiet /\ SetEnv(value)

SpecSeq == InitCache /\ [][NextSeq]_vars

\* Concurrent first access: several invocations of one execution context
\* construct adapters at the same time, interleaving at statement granularity.
NextConc ==
    \/ \E t \in Threads, arg \in Keys \cup {NoKey} : NewResolve(t, arg)
    \/ \E t \in Threads : NewCheck(t)
    \/ \E t \in Threads : NewGet(t)
    \/ \E t \in Threads : NewCreate(t)
    \/ \E t \in Threads : NewInsert(t)
    \/ \E t \in Threads : InitCheck(t)
    \/ \E t \in Threads : InitFlag(t)
    \/ \E t \in Threads : InitName(t)
    \/ \E t \in Threads : InitClient(t)
    \/ \E t \in Threads : InitClientFails(t)
    \/ \E t \in Threads : InitTable(t)

SpecConc == InitCache /\ [][NextConc]_vars

(***************************************************************************)
(* Error normalization (exceptions.py) and response envelope (models.py,   *)
(* decorators.py)                                                          *)
(***************************************************************************)
\* Python class hierarchy of the exceptions that occur.
BaseOf(cls) ==
    CASE cls \in {"ValidationError", "NotFoundError", "ScheduledTaskError"}
            -> "AppException"
      [] cls \in {"AppException", "ValueError", "KeyError", "ClientError",
                  "BotoError", "AttributeError", "binascii.Error",
                  "pydantic.ValidationError"}
            -> "Exception"
      [] OTHER -> "object"

RECURSIVE Mro(_)
Mro(cls) == IF cls = "object" THEN <<>> ELSE <<cls>> \o Mro(BaseOf(cls))

IsInstance(cls, base) == \E i \in 1..Len(Mro(cls)) : Mro(cls)[i] = base

\* An exception that is not an AppException: class and str(e).
PyError(cls, message) == [cls |-> cls, message |-> message]

\* dict `details or {}`: a dict is a set of <<key, value>> pairs.
NoDetails == {}
OrEmpty(details) == IF details = Null THEN NoDetails ELSE details.v

\* AppException.__init__(message, status_code=500, details=None);
\* status_code = Null stands for the argument left out.
AppExceptionInit(cls, message, status_code, details) ==
    [cls |-> cls, message |-> message,
     status_code |-> IF status_code = Null THEN 500 ELSE status_code.v,
     details |-> OrEmpty(details)]

AppException(message, status_code, details) ==
    AppExceptionInit("AppException", message, status_code, details)

\* Faulty variant: the schema-validation status is used for the domain error.
ValidationError_as_422(message, details) ==
    AppExceptionInit("ValidationError", message, Arg(422), details)

\* ValidationError.__init__: super().__init__(message, status_code=400, ...)
ValidationError(message, details) ==
    AppExceptionInit("ValidationError", message, Arg(400), details)

\* NotFoundError.__init__: details from the truthy arguments, status 404.
NotFoundError(message, resource_type, resource_id) ==
    AppExceptionInit("NotFoundError", message, Arg(404),
        Arg((IF resource_type \notin {Null, Arg("")}
                THEN {<<"resource_type", resource_type.v>>} ELSE {})
            \cup
            (IF resource_id \notin {Null, Arg("")}
                THEN {<<"resource_id", resource_id.v>>} ELSE {})))

\* ScheduledTaskError.__init__: status 500.
ScheduledTaskError(message, details) ==
    AppExceptionInit("ScheduledTaskError", message, Arg(500), details)

\* ApiResponse(success, data=None, error=None).model_dump()
ApiResponse(success, data, error) ==
    [success |-> success, data |-> data, error |-> error]

\* Faulty variant: the error envelope is built from the success template.
format_exception_response_success(ex) ==
    ApiResponse(TRUE, Null,
        [type |-> ex.cls, message |-> ex.message, details |-> ex.details])

\* format_exception_response(ex)
format_exception_response(ex) ==
    ApiResponse(FALSE, Null,
        [type |-> ex.cls, message |-> ex.message, details |-> ex.details])

\* What a route function produces.
Return(value) == [kind |-> "return", value |-> value]
Raise(exc) == [kind |-> "raise", exc |-> exc]

\* What lambda_handler gives back: an HTTP response, or an exception that
\* propagates to the Lambda runtime.
Response(status_code, body) ==
    [kind |-> "http", status_code |-> status_code, body |-> body]
Propagated(exc) == [kind |-> "propagated", exc |-> exc]

\* Faulty variant: every AppException is answered with 500.
handle_app_exception_500(ex) == Response(500, format_exception_response(ex))

\* handle_app_exception(ex): Response(status_code=ex.status_code, body=...)
handle_app_exception(ex) ==
    Response(ex.status_code, format_exception_response(ex))

\* register_exception_handlers: the classes @app.exception_handler knows.
exception_handlers == {"AppException"}

\* unified_response.wrapper: result = func(...); wrap it; exceptions pass.
unified_response(result) ==
    IF result.kind = "return"
    THEN Return(ApiResponse(TRUE, result.value, Null))
    ELSE result

(***************************************************************************)
(* Strings of path parameters                                              *)
(***************************************************************************)
\* The characters of the strings sent as {user_id} / {file_id}.
Spell(s) ==
    CASE s = "1000"  -> <<"1", "0", "0", "0">>
      [] s = "9999"  -> <<"9", "9", "9", "9">>
      [] s = "01000" -> <<"0", "1", "0", "0", "0">>
      [] s = "abc"   -> <<"a", "b", "c">>
      [] s = "U+00B2" -> <<"SUPERSCRIPT TWO">>
      [] s = "f1"    -> <<"f", "1">>
      [] s = "f2"    -> <<"f", "2">>
      [] OTHER       -> <<s>>

DecimalChars == {"0", "1", "2", "3", "4", "5", "6", "7", "8", "9"}
\* Characters with the Unicode digit property: the decimals and e.g.
\* superscripts.
DigitChars == DecimalChars \cup {"SUPERSCRIPT TWO"}

DigitValue(c) ==
    CASE c = "0" -> 0 [] c = "1" -> 1 [] c = "2" -> 2 [] c = "3" -> 3
      [] c = "4" -> 4 [] c = "5" -> 5 [] c = "6" -> 6 [] c = "7" -> 7
      [] c = "8" -> 8 [] c = "9" -> 9

\* str.isdigit()
isdigit(s) ==
    LET cs == Spell(s) IN
    Len(cs) > 0 /\ \A i \in 1..Len(cs) : cs[i] \in DigitChars

RECURSIVE ParseDecimal(_, _)
ParseDecimal(cs, acc) ==
    IF cs = <<>> THEN acc
    ELSE ParseDecimal(Tail(cs), 10 * acc + DigitValue(Head(cs)))

\* int(s): the value, or ValueError for anything but decimal digits.
int(s) ==
    LET cs == Spell(s) IN
    IF Len(cs) > 0 /\ \A i \in 1..Len(cs) : cs[i] \in DecimalChars
    THEN [ok |-> TRUE, value |-> ParseDecimal(cs, 0)]
    ELSE [ok |-> FALSE, value |-> 0]

(***************************************************************************)
(* Request schema of POST /users (models.py) and its validation            *)
(***************************************************************************)
\* A JSON field value: its type and, for a string its length, for an integer
\* its value, for a boolean 1 / 0.
Missing == [type |-> "missing", val |-> 0]
StrVal(len) == [type |-> "str", val |-> len]
IntVal(n) == [type |-> "int", val |-> n]
BoolVal(b) == [type |-> "bool", val |-> IF b THEN 1 ELSE 0]

\* Field(...) on a str field without length bounds.
RequiredStr(v) ==
    IF v.type = "missing" THEN {"missing"}
    ELSE IF v.type # "str" THEN {"string_type"}
    ELSE {}

\* Field(..., min_length, max_length) on a str field.
StrField(v, required, min_length, max_length) ==
    IF v.type = "missing" THEN (IF required THEN {"missing"} ELSE {})
    ELSE IF v.type # "str" THEN {"string_type"}
    ELSE IF v.val < min_length THEN {"string_too_short"}
    ELSE IF v.val > max_length THEN {"string_too_long"}
    ELSE {}

\* Faulty variant: the upper bound is exclusive.
IntField_exclusive(v, required, ge, le) ==
    IF v.type = "missing" THEN (IF required THEN {"missing"} ELSE {})
    ELSE IF v.type # "int" THEN {"int_parsing"}
    ELSE IF v.val < ge THEN {"greater_than_equal"}
    ELSE IF v.val >= le THEN {"less_than_equal"}
    ELSE {}

\* Field(..., ge, le) on an int field.
IntField(v, required, ge, le) ==
    IF v.type = "missing" THEN (IF required THEN {"missing"} ELSE {})
    ELSE IF v.type # "int" THEN {"int_parsing"}
    ELSE IF v.val < ge THEN {"greater_than_equal"}
    ELSE IF v.val > le THEN {"less_than_equal"}
    ELSE {}

\* Field(default=...) on a bool field.
BoolField(v) ==
    IF v.type \in {"missing", "bool"} THEN {} ELSE {"bool_parsing"}

\* UserCreateRequest: the error types of each field.
UserCreateRequestErrors(body) ==
    [name      |-> StrField(body.name, TRUE, 1, 100),
     email     |-> RequiredStr(body.email),
     age       |-> IntField(body.age, TRUE, 0, 150),
     is_active |-> BoolField(body.is_active)]

ErrorTypes ==
    {"missing", "string_type", "string_too_short", "string_too_long",
     "int_parsing", "greater_than_equal", "less_than_equal", "bool_parsing"}

\* The validation report: one entry per violated field, loc = body.<field>.
ValidationReport(errors) ==
    {[loc |-> <<"body", ft[1]>>, type |-> ft[2]] :
        ft \in {x \in (DOMAIN errors) \X ErrorTypes : x[2] \in errors[x[1]]}}

\* Faulty variant: validation stops at the first violated field.
validate_user_first_error(body) ==
    LET report == ValidationReport(UserCreateRequestErrors(body)) IN
    IF report = {} THEN report
    ELSE {CHOOSE e \in report :
            \A o \in report : e.loc[2] = "name" \/ o.loc[2] # "name"}

\* Every violated field of a create-user body (empty: the body is valid).
validate_user(body) == ValidationReport(UserCreateRequestErrors(body))

\* The validated UserCreateRequest: defaults filled in.
UserCreateRequest(body) ==
    [name |-> body.name, email |-> body.email, age |-> body.age.val,
     is_active |-> IF body.is_active.type = "missing" THEN TRUE
                   ELSE body.is_active.val = 1]

\* FileUploadRequest: the error types of each field.
FileUploadRequestErrors(body) ==
    [file_name |-> StrField(body.file_name, TRUE, 1, 255),
     content   |-> RequiredStr(body.content)]

\* Every violated field of a file-upload body.
validate_upload(body) == ValidationReport(FileUploadRequestErrors(body))

\* A str field value that is used for its text.
Text(t, len) == [type |-> "str", val |-> len, text |-> t]

\* base64.b64decode on the contents that are sent: "aGk=" is b"hi", "aGk"
\* lacks its padding (binascii.Error).
b64decode(t) ==
    CASE t = "aGk=" -> [ok |-> TRUE, value |-> <<104, 105>>]
      [] t = "YQ==" -> [ok |-> TRUE, value |-> <<97>>]
      [] t = ""     -> [ok |-> TRUE, value |-> <<>>]
      [] OTHER      -> [ok |-> FALSE, value |-> <<>>]

\* base64.b64encode(...).decode("utf-8") on the stored contents.
b64encode(bytes) ==
    CASE bytes = <<104, 105>> -> "aGk="
      [] bytes = <<97>>       -> "YQ=="
      [] bytes = <<>>         -> ""
      [] OTHER                -> "<base64>"

(***************************************************************************)
(* Domain logic (helper.py)                                                *)
(***************************************************************************)
\* Users.__init__: self._next_id = 1000
Users_init == [next_id |-> 1000]

\* Faulty variant: the domain model allows shorter names than the request
\* schema.
User_shorter_name(user_id, name, email, age, is_active) ==
    IF /\ StrField(name, TRUE, 1, 50) = {}
       /\ RequiredStr(email) = {}
       /\ IntField(IntVal(age), TRUE, 0, 150) = {}
       /\ BoolField(BoolVal(is_active)) = {}
    THEN Return([user_id |-> user_id, name |-> name, email |-> email,
                 age |-> age, is_active |-> is_active])
    ELSE Raise(PyError("pydantic.ValidationError", <<"User">>))

\* User(...): the domain model validates its fields again.
User(user_id, name, email, age, is_active) ==
    IF /\ StrField(name, TRUE, 1, 100) = {}
       /\ RequiredStr(email) = {}
       /\ IntField(IntVal(age), TRUE, 0, 150) = {}
       /\ BoolField(BoolVal(is_active)) = {}
    THEN Return([user_id |-> user_id, name |-> name, email |-> email,
                 age |-> age, is_active |-> is_active])
    ELSE Raise(PyError("pydantic.ValidationError", <<"User">>))

\* Users.create_user: user_id = self._next_id; self._next_id += 1
Users_create_user(self, name, email, age, is_active) ==
    [self |-> [self EXCEPT !.next_id = @ + 1],
     user |-> User(self.next_id, name, email, age, is_active)]

\* multiply_numbers(a, b)
multiply_numbers(a, b) == a * b

\* get_greeting_message(name)
get_greeting_message(name) ==
    [greeting |-> <<"Hello, ", name, "!">>, source |-> "helper module",
     status |-> "success"]

(***************************************************************************)
(* Adapters as the route functions use them                                *)
(***************************************************************************)
RECURSIVE Run(_, _, _)
Run(m, f, ok) ==
    IF f.pc \in ReturnedPcs \/ ~CanStep(m, f)
    THEN [m |-> m, f |-> f]
    ELSE LET r == Step(m, f, ok) IN Run(r.m, r.f, ok)

\* cls(arg) run to its end by one invocation.
Construct(m, arg, ok) == Run(m, new_resolve(m, arg), ok)

\* A botocore ClientError with its error code.
ClientError(code) == PyError("ClientError", <<code>>)

\* The object keys of a bucket: a bucket is a set of [key, content] objects.
ObjectKeys(bucket) == {o.key : o \in bucket}

\* Access to self.s3_client / self.bucket_name, then the remote call: the
\* attribute may never have been assigned, the call may fail.
RemoteCall(self, ok, result) ==
    IF self.client = None \/ self.name = Unset
    THEN Raise(PyError("AttributeError", <<"s3_client">>))
    ELSE IF ~ok \/ self.name \notin Keys
    THEN Raise(ClientError("InternalError"))
    ELSE result

\* Faulty variant: the last byte is not stored.
storage_upload_file_truncated(self, store, key, file_content, ok) ==
    RemoteCall(self, ok,
        Return([store EXCEPT ![self.name] =
                  {o \in @ : o.key # key}
                  \cup {[key |-> key,
                         content |-> IF file_content = <<>> THEN <<>>
                                     ELSE SubSeq(file_content, 1,
                                                 Len(file_content) - 1)]}]))

\* StorageService.upload_file: put_object; the store after it.
storage_upload_file(self, store, key, file_content, ok) ==
    RemoteCall(self, ok,
        Return([store EXCEPT ![self.name] =
                  {o \in @ : o.key # key}
                  \cup {[key |-> key, content |-> file_content]}]))

\* StorageService.file_exists: head_object; "404" means False.
storage_file_exists(self, store, key, ok) ==
    RemoteCall(self, ok, Return(key \in ObjectKeys(store[self.name])))

\* StorageService.download_file: get_object.
storage_download_file(self, store, key, ok) ==
    RemoteCall(self, ok,
        IF key \in ObjectKeys(store[self.name])
        THEN Return((CHOOSE o \in store[self.name] : o.key = key).content)
        ELSE Raise(ClientError("NoSuchKey")))

\* StorageService.delete_file: delete_object; the store after it.
storage_delete_file(self, store, key, ok) ==
    RemoteCall(self, ok,
        Return([store EXCEPT ![self.name] = {o \in @ : o.key # key}]))

\* prefix as leading key segments.
HasPrefix(key, prefix) ==
    Len(prefix) <= Len(key) /\ \A i \in 1..Len(prefix) : key[i] = prefix[i]

\* StorageService.list_files: list_objects_v2; key and size of each object.
storage_list_files(self, store, prefix, ok) ==
    RemoteCall(self, ok,
        Return({[key |-> o.key, size |-> ToString(Len(o.content)),
                 last_modified |-> "<isoformat>"] :
                   o \in {x \in store[self.name] : HasPrefix(x.key, prefix)}}))

\* Faulty variant: the variable is not read.
getenv_default_only(environ, name, default) == default

\* os.getenv(name, default)
getenv(environ, name, default) ==
    IF environ[name] = NotSet THEN default ELSE environ[name]

\* EmailService(): the sender comes from FROM_EMAIL; ValueError without it.
EmailService(environ) ==
    IF environ.FROM_EMAIL \in {NotSet, ""}
    THEN Raise(PyError("ValueError", <<"From email must be provided">>))
    ELSE Return([from_email |-> environ.FROM_EMAIL])

\* EmailService.send_daily_report: the SES message id, or the ClientError
\* of the failed send.
send_daily_report(self, to_addresses, ok) ==
    IF ok THEN Return("ses-message-id")
    ELSE Raise(ClientError("MessageRejected"))

(***************************************************************************)
(* Route functions (app.py)                                                *)
(***************************************************************************)
\* What one remote interaction of a route function does: creating the SDK
\* client, the first and the second remote call succeed or fail.
IO == [client_ok : BOOLEAN, first_ok : BOOLEAN, second_ok : BOOLEAN]

\* Result of a route function together with the state it leaves.
Effect(result, m, store, n) ==
    [outcome |-> result, m |-> m, s3 |-> store, uploads |-> n]

health_check ==
    Return([status |-> "healthy", service |-> "PowertoolsHelloWorld",
            environment |-> "dev", checks |-> [lambda |-> "ok"]])

create_user(user_request) ==
    LET users_service == Users_init
        user == Users_create_user(users_service, user_request.name,
                    user_request.email, user_request.age,
                    user_request.is_active).user
    IN IF user.kind = "raise" THEN user
       ELSE Return([status |-> "success",
                    message |-> <<"User ", user_request.name,
                                  " created successfully">>,
                    user |-> user.value])

\* Faulty variant: the lookup finds the demo user only once a user has been
\* created.
get_user_created(user_id) ==
    IF ~isdigit(user_id)
    THEN Raise(ValidationError(<<"Invalid user ID format">>,
                   Arg({<<"user_id", user_id>>,
                        <<"expected", "numeric string">>})))
    ELSE LET user_id_int == int(user_id) IN
         IF ~user_id_int.ok
         THEN Raise(PyError("ValueError", <<"invalid literal for int()">>))
         ELSE IF user_id_int.value = 1000 /\ created > 0
         THEN Return([user_id |-> 1000, name |-> "John Doe",
                      email |-> "john@example.com", age |-> 30,
                      is_active |-> TRUE])
         ELSE Raise(NotFoundError(<<"User with ID ", user_id, " not found">>,
                                  Arg("User"), Arg(user_id)))

\* get_user(user_id): the lookup is simulated, only 1000 is found.
get_user(user_id) ==
    IF ~isdigit(user_id)
    THEN Raise(ValidationError(<<"Invalid user ID format">>,
                   Arg({<<"user_id", user_id>>,
                        <<"expected", "numeric string">>})))
    ELSE LET user_id_int == int(user_id) IN
         IF ~user_id_int.ok
         THEN Raise(PyError("ValueError", <<"invalid literal for int()">>))
         ELSE IF user_id_int.value = 1000
         THEN Return([user_id |-> 1000, name |-> "John Doe",
                      email |-> "john@example.com", age |-> 30,
                      is_active |-> TRUE])
         ELSE Raise(NotFoundError(<<"User with ID ", user_id, " not found">>,
                                  Arg("User"), Arg(user_id)))

hello ==
    Return([message |-> "hello world",
            helper_module_test |-> get_greeting_message("Lambda"),
            multiplication_result |-> multiply_numbers(6, 7)])

\* The instance a finished construction handed out.
Handle(c) == c.m.heap[c.f.instance]

\* str(e) of a failed construction.
ConstructError(c) == PyError(c.f.err, <<c.f.err>>)

upload_file(upload_request, m, store, n, io) ==
    LET file_content == b64decode(upload_request.content.text)
        file_id == <<"uploads", ToString(n + 1), upload_request.file_name.text>>
        c == Construct(m, NoKey, io.client_ok)
        put == storage_upload_file(Handle(c), store, file_id,
                                   file_content.value, io.first_ok)
        failed(e, m2, n2) ==
            Effect(Raise(ValidationError(<<"Failed to upload file: ", e.message>>,
                                         Null)), m2, store, n2)
    IN IF ~file_content.ok
       THEN failed(PyError("binascii.Error", <<"Incorrect padding">>), m, n)
       ELSE IF c.f.pc = "raised" THEN failed(ConstructError(c), c.m, n + 1)
       ELSE IF put.kind = "raise" THEN failed(put.exc, c.m, n + 1)
       ELSE Effect(Return([file_id |-> file_id,
                           file_name |-> upload_request.file_name.text,
                           size |-> Len(file_content.value),
                           message |-> "File uploaded successfully"]),
                   c.m, put.value, n + 1)

\* Faulty variant: NotFoundError is not re-raised but wrapped like any other
\* exception.
download_file_wraps_not_found(file_id, m, store, n, io) ==
    LET c == Construct(m, NoKey, io.client_ok)
        exists == storage_file_exists(Handle(c), store, file_id, io.first_ok)
        file_content == storage_download_file(Handle(c), store, file_id,
                                              io.second_ok)
        failed(e) ==
            Effect(Raise(ValidationError(<<"Failed to download file: ", e.message>>,
                                         Null)), c.m, store, n)
    IN IF c.f.pc = "raised" THEN failed(ConstructError(c))
       ELSE IF exists.kind = "raise" THEN failed(exists.exc)
       ELSE IF ~exists.value
       THEN failed(NotFoundError(<<"File not found: ", file_id>>, Null, Null))
       ELSE IF file_content.kind = "raise" THEN failed(file_content.exc)
       ELSE Effect(Return([file_id |-> file_id,
                           content |-> b64encode(file_content.value),
                           size |-> Len(file_content.value),
                           message |-> "File downloaded successfully"]),
                   c.m, store, n)

download_file(file_id, m, store, n, io) ==
    LET c == Construct(m, NoKey, io.client_ok)
        exists == storage_file_exists(Handle(c), store, file_id, io.first_ok)
        file_content == storage_download_file(Handle(c), store, file_id,
                                              io.second_ok)
        failed(e) ==
            Effect(Raise(ValidationError(<<"Failed to download file: ", e.message>>,
                                         Null)), c.m, store, n)
    IN IF c.f.pc = "raised" THEN failed(ConstructError(c))
       ELSE IF exists.kind = "raise" THEN failed(exists.exc)
       ELSE IF ~exists.value
       THEN Effect(Raise(NotFoundError(<<"File not found: ", file_id>>, Null, Null)),
                   c.m, store, n)
       ELSE IF file_content.kind = "raise" THEN failed(file_content.exc)
       ELSE Effect(Return([file_id |-> file_id,
                           content |-> b64encode(file_content.value),
                           size |-> Len(file_content.value),
                           message |-> "File downloaded successfully"]),
                   c.m, store, n)

list_files(prefix, m, store, n, io) ==
    LET c == Construct(m, NoKey, io.client_ok)
        files == storage_list_files(Handle(c), store, prefix, io.first_ok)
        failed(e) ==
            Effect(Raise(ValidationError(<<"Failed to list files: ", e.message>>,
                                         Null)), c.m, store, n)
    IN IF c.f.pc = "raised" THEN failed(ConstructError(c))
       ELSE IF files.kind = "raise" THEN failed(files.exc)
       ELSE Effect(Return([files |-> files.value,
                           count |-> Cardinality(files.value)]),
                   c.m, store, n)

\* Faulty variant: the object is deleted without the existence check.
delete_file_unchecked(file_id, m, store, n, io) ==
    LET c == Construct(m, NoKey, io.client_ok)
        deleted == storage_delete_file(Handle(c), store, file_id, io.second_ok)
        failed(e) ==
            Effect(Raise(ValidationError(<<"Failed to delete file: ", e.message>>,
                                         Null)), c.m, store, n)
    IN IF c.f.pc = "raised" THEN failed(ConstructError(c))
       ELSE IF deleted.kind = "raise" THEN failed(deleted.exc)
       ELSE Effect(Return([file_id |-> file_id,
                           message |-> "File deleted successfully"]),
                   c.m, deleted.value, n)

delete_file(file_id, m, store, n, io) ==
    LET c == Construct(m, NoKey, io.client_ok)
        exists == storage_file_exists(Handle(c), store, file_id, io.first_ok)
        deleted == storage_delete_file(Handle(c), store, file_id, io.second_ok)
        failed(e) ==
            Effect(Raise(ValidationError(<<"Failed to delete file: ", e.message>>,
                                         Null)), c.m, store, n)
    IN IF c.f.pc = "raised" THEN failed(ConstructError(c))
       ELSE IF exists.kind = "raise" THEN failed(exists.exc)
       ELSE IF ~exists.value
       THEN Effect(Raise(NotFoundError(<<"File not found: ", file_id>>, Null, Null)),
                   c.m, store, n)
       ELSE IF deleted.kind = "raise" THEN failed(deleted.exc)
       ELSE Effect(Return([file_id |-> file_id,
                           message |-> "File deleted successfully"]),
                   c.m, deleted.value, n)

trigger_nightly_email(environ, io) ==
    LET admin_email == getenv(environ, "ADMIN_EMAIL", "admin@example.com")
        email_service == EmailService(environ)
        message_id == send_daily_report(email_service.value, <<admin_email>>,
                                        io.first_ok)
    IN IF email_service.kind = "raise" THEN email_service
       ELSE IF message_id.kind = "raise" THEN message_id
       ELSE Return([message |-> <<"Email sent successfully. MessageId: ",
                                  message_id.value>>,
                    message_id |-> message_id.value,
                    recipient |-> admin_email])

(***************************************************************************)
(* Dispatcher: app.resolve inside lambda_handler                           *)
(***************************************************************************)
\* The routes in the order app.py registers them.
Routes ==
    << [method |-> "GET",    rule |-> <<"health">>,             func |-> "health_check"],
       [method |-> "POST",   rule |-> <<"users">>,              func |-> "create_user"],
       [method |-> "GET",    rule |-> <<"users", "<user_id>">>, func |-> "get_user"],
       [method |-> "GET",    rule |-> <<"hello">>,              func |-> "hello"],
       [method |-> "POST",   rule |-> <<"files">>,              func |-> "upload_file"],
       [method |-> "GET",    rule |-> <<"files", "<file_id>">>, func |-> "download_file"],
       [method |-> "GET",    rule |-> <<"files">>,              func |-> "list_files"],
       [method |-> "DELETE", rule |-> <<"files", "<file_id>">>, func |-> "delete_file"],
       [method |-> "POST",   rule |-> <<"tasks", "nightly-email">>,
                                                                func |-> "trigger_nightly_email"] >>

IsParam(segment) == segment \in {"<user_id>", "<file_id>"}

\* A rule matches a path when every literal segment is equal and every
\* dynamic segment takes one path segment.
Matches(rule, path) ==
    /\ Len(rule) = Len(path)
    /\ \A i \in 1..Len(rule) : IsParam(rule[i]) \/ rule[i] = path[i]

\* Faulty variant: a request that matches no route falls through to the
\* first route.
resolve_fallthrough(method, path) ==
    LET hits == {i \in 1..Len(Routes) :
                    Routes[i].method = method /\ Matches(Routes[i].rule, path)}
    IN IF hits = {} THEN Routes[1].func
       ELSE Routes[CHOOSE i \in hits : \A j \in hits : i <= j].func

\* The route function of the first matching route, "" when none matches.
resolve(method, path) ==
    LET hits == {i \in 1..Len(Routes) :
                    Routes[i].method = method /\ Matches(Routes[i].rule, path)}
    IN IF hits = {} THEN ""
       ELSE Routes[CHOOSE i \in hits : \A j \in hits : i <= j].func

\* The body schema a route function declares: the violations of the body.
SchemaErrors(func, body) ==
    CASE func = "create_user" -> UserCreateRequestErrors(body)
      [] func = "upload_file" -> FileUploadRequestErrors(body)
      [] OTHER                -> [none |-> {}]

\* The validation report of the body against the route's schema.
validate(func, body) ==
    CASE func = "create_user" -> validate_user(body)
      [] func = "upload_file" -> validate_upload(body)
      [] OTHER                -> {}

\* The route function called with the validated arguments; a file_id is an
\* object key, the sequence of its "/"-separated parts.
Call(func, ev, m, store, n, environ, io) ==
    CASE func = "health_check"  -> Effect(health_check, m, store, n)
      [] func = "create_user"   ->
            Effect(create_user(UserCreateRequest(ev.body)), m, store, n)
      [] func = "get_user"      -> Effect(get_user(ev.path[2]), m, store, n)
      [] func = "hello"         -> Effect(hello, m, store, n)
      [] func = "upload_file"   -> upload_file(ev.body, m, store, n, io)
      [] func = "download_file" -> download_file(<<ev.path[2]>>, m, store, n, io)
      [] func = "list_files"    -> list_files(ev.prefix, m, store, n, io)
      [] func = "delete_file"   -> delete_file(<<ev.path[2]>>, m, store, n, io)
      [] func = "trigger_nightly_email" ->
            Effect(trigger_nightly_email(environ, io), m, store, n)

\* Route functions that construct the storage adapter.
UsesStorage(func) ==
    func \in {"upload_file", "download_file", "list_files", "delete_file"}

\* Faulty variant: a catch-all handler turns every other exception into a
\* 500 envelope.
render_raise_catch_all(exc) ==
    IF IsInstance(exc.cls, "AppException")
    THEN handle_app_exception(exc)
    ELSE Response(500, ApiResponse(FALSE, Null,
             [type |-> exc.cls, message |-> exc.message, details |-> NoDetails]))

\* An exception leaving the route function: the handler registered for a
\* class of its MRO answers, without one the exception leaves lambda_handler.
render_raise(exc) ==
    IF \E i \in 1..Len(Mro(exc.cls)) : Mro(exc.cls)[i] \in exception_handlers
    THEN handle_app_exception(exc)
    ELSE Propagated(exc)

\* What lambda_handler gives back for an outcome.
render(o) ==
    CASE o.kind = "return"    -> Response(200, o.value)
      [] o.kind = "not_found" ->
            Response(404, [statusCode |-> 404, message |-> "Not found"])
      [] o.kind = "invalid"   ->
            Response(422, [statusCode |-> 422, detail |-> o.report])
      [] o.kind = "raise"     -> render_raise(o.exc)

\* An API-Gateway-shaped event; EventBridge sends the same shape.
Request(source, method, path, body, prefix) ==
    [source |-> source, method |-> method, path |-> path, body |-> body,
     prefix |-> prefix]

\* Bodies sent to POST /users: the valid ones, the ones that violate one
\* field, and one that violates three; a str sent as age is no number.
UserBodies ==
    [name      : {StrVal(1), StrVal(100)},
     email     : {StrVal(16)},
     age       : {IntVal(0), IntVal(30), IntVal(150)},
     is_active : {Missing, BoolVal(FALSE)}]
    \cup
    [name      : {Missing, StrVal(0), StrVal(101), IntVal(7)},
     email     : {StrVal(16)},
     age       : {IntVal(30)},
     is_active : {Missing}]
    \cup
    [name      : {StrVal(1)},
     email     : {StrVal(16)},
     age       : {Missing, StrVal(10), IntVal(-1), IntVal(151), IntVal(200)},
     is_active : {Missing}]
    \cup
    [name      : {StrVal(1), IntVal(7)},
     email     : {Missing},
     age       : {IntVal(30), IntVal(151)},
     is_active : {Missing}]

\* Bodies sent to POST /files.
FileBodies ==
    [file_name : {Missing, Text("a.txt", 5)},
     content   : {Missing, Text("aGk=", 4), Text("aGk", 3)}]

UserIds == {"1000", "9999", "01000", "abc", "U+00B2"}
FileIds == {"f1", "f2"}

Events ==
    {Request("apigw", "GET", <<"health">>, Null, <<>>),
     Request("apigw", "GET", <<"hello">>, Null, <<>>),
     Request("apigw", "GET", <<"missing">>, Null, <<>>),
     Request("apigw", "PUT", <<"health">>, Null, <<>>)}
    \cup {Request("apigw", "POST", <<"users">>, b, <<>>) : b \in UserBodies}
    \cup {Request("apigw", "GET", <<"users", id>>, Null, <<>>) : id \in UserIds}
    \cup {Request("apigw", "POST", <<"files">>, b, <<>>) : b \in FileBodies}
    \cup {Request("apigw", meth, <<"files", id>>, Null, <<>>) :
             meth \in {"GET", "DELETE"}, id \in FileIds}
    \cup {Request("apigw", "GET", <<"files">>, Null, prefix) :
             prefix \in {<<>>, <<"uploads">>}}
    \cup {Request(source, "POST", <<"tasks", "nightly-email">>, Null, <<>>) :
             source \in {"apigw", "eventbridge"}}

\* The execution context before app.py is imported.
InitApi ==
    /\ service = "storage"
    /\ env \in Keys \cup {NoKey}
    /\ connections = EmptyCache
    /\ heap = <<>>
    /\ nextId = 1
    /\ thr = [t \in Threads |-> IdleThread]
    /\ phase = "ColdStart"
    /\ InitDispatcher
    /\ s3 \in {[b \in Keys |-> EmptyBucket],
               [b \in Keys |-> {[key |-> <<"f1">>, content |-> <<104, 105>>]}]}
    /\ osenv \in [FROM_EMAIL : {NotSet, "noreply@example.com"},
                  ADMIN_EMAIL : {NotSet, "ops@example.com"}]

\* Import of app.py: eager construction when DATA_BUCKET is set.
ColdStart(ok) ==
    /\ phase = "ColdStart"
    /\ IF env # NoKey
       THEN LET c == Construct(Machine, NoKey, ok) IN
            /\ c.f.pc \in ReturnedPcs
            /\ SetMachine(c.m)
       ELSE UNCHANGED <<service, env, connections, heap, nextId>>
    /\ phase' = "Idle"
    /\ UNCHANGED <<thr, event, route, outcome, response, calls, s3, uploads, created,
                   osenv, aws>>

\* lambda_handler is invoked with an event.
Receive(ev) ==
    /\ phase = "Idle"
    /\ resolve(ev.method, ev.path) = "upload_file" => uploads < MaxUploads
    /\ resolve(ev.method, ev.path) = "create_user" => created < MaxCreated
    /\ phase' = "RouteMatch"
    /\ event' = ev
    /\ route' = ""
    /\ outcome' = NoOutcome
    /\ response' = NoResponse
    /\ calls' = 0
    /\ UNCHANGED <<cacheVars, s3, uploads, created, osenv, aws>>

\* Route resolution; no route: the not-found response is rendered.
RouteMatch ==
    /\ phase = "RouteMatch"
    /\ route' = resolve(event.method, event.path)
    /\ IF route' = ""
       THEN outcome' = [kind |-> "not_found"] /\ phase' = "Render"
       ELSE outcome' = outcome /\ phase' = "Validate"
    /\ UNCHANGED <<cacheVars, event, response, calls, s3, uploads, created,
                   osenv, aws>>

\* Faulty variant: the route function is called whatever the body is.
Validate_skipped ==
    /\ phase = "Validate"
    /\ outcome' = outcome
    /\ phase' = "Handle"
    /\ UNCHANGED <<cacheVars, event, route, response, calls, s3, uploads,
                   created, osenv, aws>>

\* Validation of the body against the route's schema; a violation skips the
\* route function.
Validate ==
    /\ phase = "Validate"
    /\ LET report == validate(route, event.body) IN
       IF report # {}
       THEN outcome' = [kind |-> "invalid", report |-> report] /\ phase' = "Render"
       ELSE outcome' = outcome /\ phase' = "Handle"
    /\ UNCHANGED <<cacheVars, event, route, response, calls, s3, uploads,
                   created, osenv, aws>>

\* The decorated route function runs.
HandleRoute(io) ==
    /\ phase = "Handle"
    /\ UsesStorage(route) =>
           Construct(Machine, NoKey, io.client_ok).f.pc \in ReturnedPcs
    /\ LET e == Call(route, event, Machine, s3, uploads, osenv, io) IN
       /\ outcome' = unified_response(e.outcome)
       /\ SetMachine(e.m)
       /\ s3' = e.s3
       /\ uploads' = e.uploads
       /\ created' = IF route = "create_user" /\ e.outcome.kind = "return"
                     THEN created + 1 ELSE created
    /\ calls' = calls + 1
    /\ phase' = "Render"
    /\ UNCHANGED <<thr, event, route, response, osenv, aws>>

\* The response is serialized, or the exception leaves lambda_handler.
Render ==
    /\ phase = "Render"
    /\ response' = render(outcome)
    /\ phase' = "Idle"
    /\ UNCHANGED <<cacheVars, event, route, outcome, calls, s3, uploads,
                   created, osenv, aws>>

NextApi ==
    \/ \E ok \in BOOLEAN : ColdStart(ok)
    \/ \E ev \in Events : Receive(ev)
    \/ RouteMatch
    \/ Validate
    \/ \E io \in IO : HandleRoute(io)
    \/ Render

SpecApi == InitApi /\ [][NextApi]_vars

\* One event of each kind of invocation: a plain route, no route, an invalid
\* and a valid body, a domain error, an exception that propagates, an
\* adapter call, the scheduled task.
WalkEvents ==
    {Request("apigw", "GET", <<"health">>, Null, <<>>),
     Request("apigw", "GET", <<"missing">>, Null, <<>>),
     Request("apigw", "POST", <<"users">>,
             [name |-> StrVal(1), email |-> StrVal(16), age |-> IntVal(151),
              is_active |-> Missing], <<>>),
     Request("apigw", "POST", <<"users">>,
             [name |-> StrVal(1), email |-> StrVal(16), age |-> IntVal(30),
              is_active |-> Missing], <<>>),
     Request("apigw", "GET", <<"users", "9999">>, Null, <<>>),
     Request("apigw", "GET", <<"users", "U+00B2">>, Null, <<>>),
     Request("apigw", "DELETE", <<"files", "f1">>, Null, <<>>),
     Request("eventbridge", "POST", <<"tasks", "nightly-email">>, Null, <<>>)}

NextWalk ==
    \/ \E ok \in BOOLEAN : ColdStart(ok)
    \/ \E ev \in WalkEvents : Receive(ev)
    \/ RouteMatch
    \/ Validate
    \/ \E io \in IO : HandleRoute(io)
    \/ Render

\* An invocation that has started is carried on: route resolution,
\* validation, the route function (every adapter call returns or raises) and
\* rendering each finish.
SpecWalk ==
    /\ InitApi
    /\ [][NextWalk]_vars
    /\ WF_vars(RouteMatch)
    /\ WF_vars(Validate)
    /\ WF_vars(\E io \in IO : HandleRoute(io))
    /\ WF_vars(Render)

(***************************************************************************)
(* The dispatcher in an execution context whose environment variables are  *)
(* changed between invocations, after their first read                     *)
(***************************************************************************)
\* DATA_BUCKET and ADMIN_EMAIL as they are when app.py is imported.
ColdStartBucket == "k1"
ColdStartAdmin == "ops@example.com"

\* Requests whose route functions read the configuration: GET /files builds
\* StorageService(), the nightly task reads ADMIN_EMAIL.
EnvEvents ==
    {Request("apigw", "GET", <<"files">>, Null, <<>>),
     Request("eventbridge", "POST", <<"tasks", "nightly-email">>, Null, <<>>)}

InitEnv ==
    /\ service = "storage"
    /\ env = ColdStartBucket
    /\ connections = EmptyCache
    /\ heap = <<>>
    /\ nextId = 1
    /\ thr = [t \in Threads |-> IdleThread]
    /\ phase = "ColdStart"
    /\ InitDispatcher
    /\ s3 = [b \in Keys |-> EmptyBucket]
    /\ osenv = [FROM_EMAIL |-> "noreply@example.com",
                ADMIN_EMAIL |-> ColdStartAdmin]

\* os.environ["DATA_BUCKET"] = value (or its removal) between two
\* invocations: the import of app.py has read the variable by then.
ChangeBucket(value) ==
    /\ phase = "Idle"
    /\ env # value
    /\ env' = value
    /\ UNCHANGED <<service, connections, heap, nextId, thr>>
    /\ UNCHANGED apiVars

\* os.environ["ADMIN_EMAIL"] = value (or its removal) right after a nightly
\* task has read the variable and sent its report.
ChangeAdmin(value) ==
    /\ phase = "Idle"
    /\ route = "trigger_nightly_email"
    /\ outcome.kind = "return"
    /\ osenv.ADMIN_EMAIL # value
    /\ osenv' = [osenv EXCEPT !.ADMIN_EMAIL = value]
    /\ UNCHANGED <<cacheVars, phase, event, route, outcome, response, calls,
                   s3, uploads, created, aws>>

NextEnv ==
    \/ ColdStart(TRUE)
    \/ \E ev \in EnvEvents : Receive(ev)
    \/ RouteMatch
    \/ Validate
    \/ \E io \in IO : HandleRoute(io)
    \/ Render
    \/ \E value \in Keys \cup {NoKey} : ChangeBucket(value)
    \/ \E value \in {NotSet, ColdStartAdmin, "other@example.com"} :
          ChangeAdmin(value)

SpecEnv == InitEnv /\ [][NextEnv]_vars

(***************************************************************************)
(* The file route functions called directly, one call after the other      *)
(***************************************************************************)
\* Validated upload requests.
UploadRequests ==
    [file_name : {Text("a.txt", 5)},
     content   : {Text("aGk=", 4), Text("YQ==", 4), Text("aGk", 3)}]

\* The keys upload_file can generate, and one nothing is stored under.
StoreKeys ==
    {<<"f1">>} \cup {<<"uploads", ToString(n), "a.txt">> : n \in 1..MaxUploads}

\* A direct call of a route function with its argument.
Direct(func, arg) == [source |-> "direct", func |-> func, arg |-> arg]

InitStore ==
    /\ service = "storage"
    /\ env \in Keys \cup {NoKey}
    /\ connections = EmptyCache
    /\ heap = <<>>
    /\ nextId = 1
    /\ thr = [t \in Threads |-> IdleThread]
    /\ phase = "Idle"
    /\ InitDispatcher
    /\ s3 = [b \in Keys |-> EmptyBucket]
    /\ osenv = [FROM_EMAIL |-> NotSet, ADMIN_EMAIL |-> NotSet]

\* The effect of a directly called route function becomes the state.
Apply(func, arg, e, io) ==
    /\ Construct(Machine, NoKey, io.client_ok).f.pc \in ReturnedPcs
    /\ event' = Direct(func, arg)
    /\ route' = func
    /\ outcome' = unified_response(e.outcome)
    /\ SetMachine(e.m)
    /\ s3' = e.s3
    /\ uploads' = e.uploads
    /\ UNCHANGED <<thr, phase, response, calls, created, osenv, aws>>

CallUpload(upload_request, io) ==
    /\ uploads < MaxUploads
    /\ Apply("upload_file", upload_request,
             upload_file(upload_request, Machine, s3, uploads, io), io)

CallDownload(file_id, io) ==
    Apply("download_file", file_id,
          download_file(file_id, Machine, s3, uploads, io), io)

CallDelete(file_id, io) ==
    Apply("delete_file", file_id,
          delete_file(file_id, Machine, s3, uploads, io), io)

CallList(prefix, io) ==
    Apply("list_files", prefix, list_files(prefix, Machine, s3, uploads, io),
          io)

NextStore ==
    \/ \E b \in UploadRequests, io \in IO : CallUpload(b, io)
    \/ \E k \in StoreKeys, io \in IO : CallDownload(k, io)
    \/ \E k \in StoreKeys, io \in IO : CallDelete(k, io)
    \/ \E prefix \in {<<>>, <<"uploads">>}, io \in IO : CallList(prefix, io)

SpecStore == InitStore /\ [][NextStore]_vars

(***************************************************************************)
(* Batch operations of the queue and the table adapter (sqs.py,            *)
(* dynamodb.py), called directly                                           *)
(***************************************************************************)
\* A batch of n entries: the entries are numbered.
Batch(n) == [i \in 1..n |-> i]

\* What an adapter method gives back, and the remote state it leaves.
Remote(result, remote) == [outcome |-> result, aws |-> remote]

\* One request reaches the service.
Requested(remote) == [remote EXCEPT !.requests = @ + 1]

\* The services' own limits: SQS takes 1..10 entries in a batch,
\* BatchGetItem 1..100 keys.
sqs_client_send_message_batch(remote, entries, ok) ==
    IF ~ok \/ Len(entries) = 0 \/ Len(entries) > 10
    THEN Remote(Raise(ClientError("BatchRequestRejected")), Requested(remote))
    ELSE Remote(Return([Successful |-> entries, Failed |-> <<>>]),
                [Requested(remote) EXCEPT
                    !.queue = @ \cup {entries[i] : i \in 1..Len(entries)}])

sqs_client_delete_message_batch(remote, entries, ok) ==
    IF ~ok \/ Len(entries) = 0 \/ Len(entries) > 10
    THEN Remote(Raise(ClientError("BatchRequestRejected")), Requested(remote))
    ELSE Remote(Return([Successful |-> entries, Failed |-> <<>>]),
                [Requested(remote) EXCEPT
                    !.queue = @ \ {entries[i] : i \in 1..Len(entries)}])

\* table.batch_writer(): puts every item, in as many requests as needed.
table_batch_writer(remote, items, ok) ==
    IF ~ok
    THEN Remote(Raise(ClientError("InternalError")), Requested(remote))
    ELSE Remote(Return(Null),
                [Requested(remote) EXCEPT
                    !.table = @ \cup {items[i] : i \in 1..Len(items)}])

dynamodb_batch_get_item(remote, keys, ok) ==
    IF ~ok \/ Len(keys) = 0 \/ Len(keys) > 100
    THEN Remote(Raise(ClientError("ValidationException")), Requested(remote))
    ELSE Remote(Return({keys[i] : i \in 1..Len(keys)} \cap remote.table),
                Requested(remote))

\* SQSService.send_message_batch(messages, max_batch_size=10)
send_message_batch(remote, messages, max_batch_size, ok) ==
    LET limit == IF max_batch_size = Null THEN 10 ELSE max_batch_size.v IN
    IF Len(messages) > limit
    THEN Remote(Raise(PyError("ValueError",
                    <<"Batch send supports maximum ", ToString(limit),
                      " messages">>)), remote)
    ELSE sqs_client_send_message_batch(remote, messages, ok)

\* Faulty variant: the number of receipt handles is not checked.
delete_message_batch_unchecked(remote, receipt_handles, ok) ==
    sqs_client_delete_message_batch(remote, receipt_handles, ok)

\* SQSService.delete_message_batch(receipt_handles)
delete_message_batch(remote, receipt_handles, ok) ==
    IF Len(receipt_handles) > 10
    THEN Remote(Raise(PyError("ValueError",
                    <<"Batch delete supports maximum 10 messages">>)), remote)
    ELSE sqs_client_delete_message_batch(remote, receipt_handles, ok)

\* DynamoDBService._validate_batch_size(items, max_size, operation)
validate_batch_size(items, max_size, operation) ==
    IF Len(items) > max_size
    THEN Raise(PyError("ValueError",
             <<"Batch ", operation, " supports maximum ", ToString(max_size),
               " items">>))
    ELSE Return(Null)

\* DynamoDBService.batch_write(items)
batch_write(remote, items, ok) ==
    LET valid == validate_batch_size(items, 25, "write") IN
    IF valid.kind = "raise" THEN Remote(valid, remote)
    ELSE table_batch_writer(remote, items, ok)

\* DynamoDBService.batch_get(keys)
batch_get(remote, keys, ok) ==
    LET valid == validate_batch_size(keys, 100, "get") IN
    IF valid.kind = "raise" THEN Remote(valid, remote)
    ELSE dynamodb_batch_get_item(remote, keys, ok)

\* Batch sizes around the limits, and the limits a caller passes.
BatchSizes == {0, 1, 10, 11, 25, 26, 100, 101}
BatchLimits == {Null, Arg(5), Arg(20)}

\* A direct call of a batch method.
BatchCall(op, n, max_batch_size) ==
    [source |-> "batch", op |-> op, n |-> n, max_batch_size |-> max_batch_size]

\* One adapter, constructed for the resource of its environment variable.
InitBatch ==
    /\ service \in {"sqs", "dynamodb"}
    /\ env \in Keys
    /\ LET c == Construct([service |-> service, env |-> env,
                           connections |-> EmptyCache, heap |-> <<>>,
                           nextId |-> 1], NoKey, TRUE)
       IN connections = c.m.connections /\ heap = c.m.heap
          /\ nextId = c.m.nextId
    /\ thr = [t \in Threads |-> IdleThread]
    /\ phase = "Idle"
    /\ InitDispatcher
    /\ s3 = [b \in Keys |-> EmptyBucket]
    /\ osenv = [FROM_EMAIL |-> NotSet, ADMIN_EMAIL |-> NotSet]

\* The result of a batch method becomes the state.
ApplyBatch(cls, call, r) ==
    /\ service = cls
    /\ aws.requests < MaxRequests
    /\ event' = call
    /\ outcome' = r.outcome
    /\ aws' = r.aws
    /\ UNCHANGED <<cacheVars, phase, route, response, calls, s3, uploads,
                   created, osenv>>

SendMessageBatch(n, max_batch_size, ok) ==
    ApplyBatch("sqs", BatchCall("send_message_batch", n, max_batch_size),
               send_message_batch(aws, Batch(n), max_batch_size, ok))

DeleteMessageBatch(n, ok) ==
    ApplyBatch("sqs", BatchCall("delete_message_batch", n, Null),
               delete_message_batch(aws, Batch(n), ok))

BatchWrite(n, ok) ==
    ApplyBatch("dynamodb", BatchCall("batch_write", n, Null),
               batch_write(aws, Batch(n), ok))

BatchGet(n, ok) ==
    ApplyBatch("dynamodb", BatchCall("batch_get", n, Null),
               batch_get(aws, Batch(n), ok))

NextBatch ==
    \/ \E n \in BatchSizes, limit \in BatchLimits, ok \in BOOLEAN :
          SendMessageBatch(n, limit, ok)
    \/ \E n \in BatchSizes, ok \in BOOLEAN : DeleteMessageBatch(n, ok)
    \/ \E n \in BatchSizes, ok \in BOOLEAN : BatchWrite(n, ok)
    \/ \E n \in BatchSizes, ok \in BOOLEAN : BatchGet(n, ok)

SpecBatch == InitBatch /\ [][NextBatch]_vars

(***************************************************************************)
(* Adapter methods over the SDK clients (storage.py, sqs.py, dynamodb.py):  *)
(* each method is one SDK call inside try / except ClientError             *)
(***************************************************************************)
\* What can go wrong with a request whatever it asks for: the provider
\* refuses it (botocore ClientError with the provider's code), or no
\* connection is made (botocore EndpointConnectionError, not a ClientError).
Faults == {"none", "InternalError", "EndpointConnectionError"}

SdkFailure(fault) ==
    IF fault = "EndpointConnectionError"
    THEN Raise(PyError("EndpointConnectionError", <<"Could not connect">>))
    ELSE Raise(ClientError(fault))

\* An SDK call that was made: its result and the remote state it leaves.
Sdk(result, store, remote) ==
    [result |-> result, s3 |-> store, aws |-> Requested(remote)]

s3_client_put_object(store, remote, bucket, key, body, fault) ==
    IF fault # "none" THEN Sdk(SdkFailure(fault), store, remote)
    ELSE Sdk(Return(Null),
             [store EXCEPT ![bucket] = {o \in @ : o.key # key}
                                       \cup {[key |-> key, content |-> body]}],
             remote)

s3_client_get_object(store, remote, bucket, key, fault) ==
    IF fault # "none" THEN Sdk(SdkFailure(fault), store, remote)
    ELSE IF key \notin ObjectKeys(store[bucket])
    THEN Sdk(Raise(ClientError("NoSuchKey")), store, remote)
    ELSE Sdk(Return((CHOOSE o \in store[bucket] : o.key = key).content),
             store, remote)

\* DeleteObject succeeds whether or not the key exists.
s3_client_delete_object(store, remote, bucket, key, fault) ==
    IF fault # "none" THEN Sdk(SdkFailure(fault), store, remote)
    ELSE Sdk(Return(Null),
             [store EXCEPT ![bucket] = {o \in @ : o.key # key}], remote)

s3_client_list_objects_v2(store, remote, bucket, prefix, fault) ==
    IF fault # "none" THEN Sdk(SdkFailure(fault), store, remote)
    ELSE Sdk(Return({o \in store[bucket] : HasPrefix(o.key, prefix)}),
             store, remote)

\* HeadObject on a missing key: ClientError with code "404".
s3_client_head_object(store, remote, bucket, key, fault) ==
    IF fault # "none" THEN Sdk(SdkFailure(fault), store, remote)
    ELSE IF key \notin ObjectKeys(store[bucket])
    THEN Sdk(Raise(ClientError("404")), store, remote)
    ELSE Sdk(Return(Null), store, remote)

sqs_client_send_message(store, remote, body, fault) ==
    IF fault # "none" THEN Sdk(SdkFailure(fault), store, remote)
    ELSE Sdk(Return("message-id"), store,
             [remote EXCEPT !.queue = @ \cup {body}])

table_put_item(store, remote, item, fault) ==
    IF fault # "none" THEN Sdk(SdkFailure(fault), store, remote)
    ELSE Sdk(Return(Null), store, [remote EXCEPT !.table = @ \cup {item}])

\* GetItem: the response has "Item" only when the key is in the table.
table_get_item(store, remote, key, fault) ==
    IF fault # "none" THEN Sdk(SdkFailure(fault), store, remote)
    ELSE Sdk(Return(IF key \in remote.table THEN Arg(key) ELSE Null),
             store, remote)

table_delete_item(store, remote, key, fault) ==
    IF fault # "none" THEN Sdk(SdkFailure(fault), store, remote)
    ELSE Sdk(Return(Null), store, [remote EXCEPT !.table = @ \ {key}])

\* What an adapter method does with its SDK call: what it gives back, the
\* level of the record it logs ("none": no record), and the call's own result.
Adapted(result, logged, sdk) ==
    [outcome |-> result, logged |-> logged, sdk |-> sdk.result,
     s3 |-> sdk.s3, aws |-> sdk.aws]

\* Faulty variant: the failure is logged and None is returned.
except_ClientError_swallowed(sdk, level) ==
    IF sdk.result.exc.cls = "ClientError"
    THEN Adapted(Return(Null), level, sdk)
    ELSE Adapted(sdk.result, "none", sdk)

\* except ClientError as e: logger.error(...); raise   Any other exception
\* leaves the method without passing through the except clause.
except_ClientError(sdk, level) ==
    IF sdk.result.exc.cls = "ClientError"
    THEN Adapted(sdk.result, level, sdk)
    ELSE Adapted(sdk.result, "none", sdk)

\* try: <the SDK call>; logger.info(...); return value
try_return(sdk, value) ==
    IF sdk.result.kind = "raise" THEN except_ClientError(sdk, "error")
    ELSE Adapted(Return(value), "info", sdk)

StorageService_upload_file(self, store, remote, key, file_content, fault) ==
    try_return(s3_client_put_object(store, remote, self.name, key,
                                    file_content, fault), key)

\* NoSuchKey is logged as a warning, everything else as an error.
StorageService_download_file(self, store, remote, key, fault) ==
    LET sdk == s3_client_get_object(store, remote, self.name, key, fault) IN
    IF sdk.result.kind = "raise"
    THEN except_ClientError(sdk,
             IF sdk.result.exc.message = <<"NoSuchKey">> THEN "warning"
             ELSE "error")
    ELSE Adapted(sdk.result, "info", sdk)

\* Faulty variant: success is reported without a request.
StorageService_delete_file_skipped(self, store, remote, key, fault) ==
    [outcome |-> Return(Null), logged |-> "info", sdk |-> Return(Null),
     s3 |-> store, aws |-> remote]

StorageService_delete_file(self, store, remote, key, fault) ==
    try_return(s3_client_delete_object(store, remote, self.name, key, fault),
               Null)

StorageService_list_files(self, store, remote, prefix, fault) ==
    LET sdk == s3_client_list_objects_v2(store, remote, self.name, prefix,
                                         fault) IN
    IF sdk.result.kind = "raise" THEN except_ClientError(sdk, "error")
    ELSE Adapted(Return({[key |-> o.key, size |-> ToString(Len(o.content)),
                          last_modified |-> "<isoformat>"] :
                            o \in sdk.result.value}), "info", sdk)

\* file_exists: True; except ClientError: False when the code is "404",
\* otherwise logger.error and raise.
StorageService_file_exists(self, store, remote, key, fault) ==
    LET sdk == s3_client_head_object(store, remote, self.name, key, fault) IN
    IF sdk.result.kind = "return" THEN Adapted(Return(TRUE), "none", sdk)
    ELSE IF sdk.result.exc = ClientError("404")
    THEN Adapted(Return(FALSE), "none", sdk)
    ELSE except_ClientError(sdk, "error")

SQSService_send_message(self, store, remote, message_body, fault) ==
    LET sdk == sqs_client_send_message(store, remote, message_body, fault) IN
    IF sdk.result.kind = "raise" THEN except_ClientError(sdk, "error")
    ELSE Adapted(sdk.result, "info", sdk)

DynamoDBService_put_item(self, store, remote, item, fault) ==
    try_return(table_put_item(store, remote, item, fault), item)

\* get_item: response.get("Item"): the item, or None when there is none.
DynamoDBService_get_item(self, store, remote, key, fault) ==
    LET sdk == table_get_item(store, remote, key, fault) IN
    IF sdk.result.kind = "raise" THEN except_ClientError(sdk, "error")
    ELSE Adapted(sdk.result, "info", sdk)

DynamoDBService_delete_item(self, store, remote, key, fault) ==
    try_return(table_delete_item(store, remote, key, fault), Null)

\* A direct call of an adapter method: the method, the fault of its request
\* and, when the SDK call raised, the exception it raised.
AdapterCall(op, fault, sdk) ==
    [source |-> "adapter", op |-> op, fault |-> fault,
     failure |-> IF sdk.kind = "raise" THEN sdk.exc ELSE Null]

\* One adapter, constructed for the resource of its environment variable;
\* the bucket holds one object or none.
InitRemote ==
    /\ service \in Adapters
    /\ env \in Keys
    /\ LET c == Construct([service |-> service, env |-> env,
                           connections |-> EmptyCache, heap |-> <<>>,
                           nextId |-> 1], NoKey, TRUE)
       IN connections = c.m.connections /\ heap = c.m.heap
          /\ nextId = c.m.nextId
    /\ thr = [t \in Threads |-> IdleThread]
    /\ phase = "Idle"
    /\ InitDispatcher
    /\ s3 \in {[b \in Keys |-> EmptyBucket],
               [b \in Keys |-> {[key |-> <<"f1">>, content |-> <<104, 105>>]}]}
    /\ osenv = [FROM_EMAIL |-> NotSet, ADMIN_EMAIL |-> NotSet]

\* The adapter instance of this process.
Self == heap[connections[env]]

\* The result of an adapter method becomes the state; response holds the
\* level of the log record the method wrote.
ApplyRemote(cls, op, fault, r) ==
    /\ service = cls
    /\ aws.requests < MaxRequests
    /\ event' = AdapterCall(op, fault, r.sdk)
    /\ outcome' = r.outcome
    /\ response' = [kind |-> "log", level |-> r.logged]
    /\ s3' = r.s3
    /\ aws' = r.aws
    /\ UNCHANGED <<cacheVars, phase, route, calls, uploads, created, osenv>>

UploadFile(fault) ==
    ApplyRemote("storage", "upload_file", fault,
        StorageService_upload_file(Self, s3, aws, <<"f1">>, <<97>>, fault))

DownloadFile(fault) ==
    ApplyRemote("storage", "download_file", fault,
        StorageService_download_file(Self, s3, aws, <<"f1">>, fault))

DeleteFile(fault) ==
    ApplyRemote("storage", "delete_file", fault,
        StorageService_delete_file(Self, s3, aws, <<"f1">>, fault))

ListFiles(fault) ==
    ApplyRemote("storage", "list_files", fault,
        StorageService_list_files(Self, s3, aws, <<>>, fault))

FileExists(fault) ==
    ApplyRemote("storage", "file_exists", fault,
        StorageService_file_exists(Self, s3, aws, <<"f1">>, fault))

SendMessage(fault) ==
    ApplyRemote("sqs", "send_message", fault,
        SQSService_send_message(Self, s3, aws, 1, fault))

PutItem(fault) ==
    ApplyRemote("dynamodb", "put_item", fault,
        DynamoDBService_put_item(Self, s3, aws, 1, fault))

GetItem(fault) ==
    ApplyRemote("dynamodb", "get_item", fault,
        DynamoDBService_get_item(Self, s3, aws, 1, fault))

DeleteItem(fault) ==
    ApplyRemote("dynamodb", "delete_item", fault,
        DynamoDBService_delete_item(Self, s3, aws, 1, fault))

NextRemote ==
    \/ \E fault \in Faults : UploadFile(fault)
    \/ \E fault \in Faults : DownloadFile(fault)
    \/ \E fault \in Faults : DeleteFile(fault)
    \/ \E fault \in Faults : ListFiles(fault)
    \/ \E fault \in Faults : FileExists(fault)
    \/ \E fault \in Faults : SendMessage(fault)
    \/ \E fault \in Faults : PutItem(fault)
    \/ \E fault \in Faults : GetItem(fault)
    \/ \E fault \in Faults : DeleteItem(fault)

SpecRemote == InitRemote /\ [][NextRemote]_vars

(***************************************************************************)
(* Two invocations of DELETE /files/{file_id} on the same key at the same   *)
(* time (app.py delete_file), interleaved at the adapter calls             *)
(***************************************************************************)
\* The key both invocations delete.
RacedKey == <<"f1">>

\* An invocation inside delete_file: before the existence check, between
\* the check and the delete, or finished with its result.
Invocation(pc, result) == [pc |-> pc, result |-> result]

\* except Exception as e: raise ValidationError(f"Failed to delete file: ...")
delete_file_failed(e) ==
    Raise(ValidationError(<<"Failed to delete file: ", e.message>>, Null))

\* One warm execution context per invocation is not distinguished: both
\* use a handle of the same bucket, which holds the key.
InitRace ==
    /\ service = "storage"
    /\ env \in Keys
    /\ LET c == Construct([service |-> service, env |-> env,
                           connections |-> EmptyCache, heap |-> <<>>,
                           nextId |-> 1], NoKey, TRUE)
       IN connections = c.m.connections /\ heap = c.m.heap
          /\ nextId = c.m.nextId
    /\ thr = [t \in Threads |-> Invocation("StorageService", NoOutcome)]
    /\ phase = "Idle"
    /\ InitDispatcher
    /\ s3 = [b \in Keys |-> {[key |-> RacedKey, content |-> <<104, 105>>]}]
    /\ osenv = [FROM_EMAIL |-> NotSet, ADMIN_EMAIL |-> NotSet]

\* storage = StorageService(): the cached handle, or the failure of the
\* construction wrapped as the 400 error.
DeleteStart(t) ==
    /\ thr[t].pc = "StorageService"
    /\ LET c == Construct(Machine, NoKey, TRUE) IN
       /\ c.f.pc \in ReturnedPcs
       /\ SetMachine(c.m)
       /\ thr' = [thr EXCEPT ![t] =
                    IF c.f.pc = "raised"
                    THEN Invocation("done", delete_file_failed(ConstructError(c)))
                    ELSE Invocation("file_exists", NoOutcome)]
    /\ UNCHANGED apiVars

\* if not storage.file_exists(file_id): raise NotFoundError(...)
DeleteCheck(t, fault) ==
    /\ thr[t].pc = "file_exists"
    /\ LET r == StorageService_file_exists(Self, s3, aws, RacedKey, fault) IN
       /\ thr' = [thr EXCEPT ![t] =
                    IF r.outcome.kind = "raise"
                    THEN Invocation("done", delete_file_failed(r.outcome.exc))
                    ELSE IF ~r.outcome.value
                    THEN Invocation("done",
                            Raise(NotFoundError(<<"File not found: ", RacedKey>>,
                                                Null, Null)))
                    ELSE Invocation("delete_file", NoOutcome)]
       /\ s3' = r.s3
       /\ aws' = r.aws
    /\ UNCHANGED <<service, env, connections, heap, nextId, phase, event,
                   route, outcome, response, calls, uploads, created, osenv>>

\* storage.delete_file(file_id); return {"file_id": ..., "message": ...}
DeleteRemove(t, fault) ==
    /\ thr[t].pc = "delete_file"
    /\ LET r == StorageService_delete_file(Self, s3, aws, RacedKey, fault) IN
       /\ thr' = [thr EXCEPT ![t] =
                    IF r.outcome.kind = "raise"
                    THEN Invocation("done", delete_file_failed(r.outcome.exc))
                    ELSE Invocation("done",
                            Return([file_id |-> RacedKey,
                                    message |-> "File deleted successfully"]))]
       /\ s3' = r.s3
       /\ aws' = r.aws
    /\ UNCHANGED <<service, env, connections, heap, nextId, phase, event,
                   route, outcome, response, calls, uploads, created, osenv>>

NextRace ==
    \/ \E t \in Threads : DeleteStart(t)
    \/ \E t \in Threads, fault \in Faults : DeleteCheck(t, fault)
    \/ \E t \in Threads, fault \in Faults : DeleteRemove(t, fault)

SpecRace == InitRace /\ [][NextRace]_vars

(***************************************************************************)
(* POST /users handled in one step by one execution context, with the      *)
(* users returned so far kept in `created`                                 *)
(***************************************************************************)
\* An execution context that has been imported without DATA_BUCKET and has
\* created no user yet.
InitUsers ==
    /\ service = "storage"
    /\ env = NoKey
    /\ connections = EmptyCache
    /\ heap = <<>>
    /\ nextId = 1
    /\ thr = [t \in Threads |-> IdleThread]
    /\ phase = "Idle"
    /\ event = NoEvent
    /\ route = ""
    /\ outcome = NoOutcome
    /\ response = NoResponse
    /\ calls = 0
    /\ uploads = 0
    /\ created = <<>>
    /\ s3 = [b \in Keys |-> EmptyBucket]
    /\ osenv = [FROM_EMAIL |-> NotSet, ADMIN_EMAIL |-> NotSet]
    /\ aws = [queue |-> {}, table |-> {}, requests |-> 0]

\* lambda_handler on POST /users: resolution, validation, the decorated
\* route function and the rendering of its outcome.
PostUsers(body) ==
    LET ev == Request("apigw", "POST", <<"users">>, body, <<>>)
        func == resolve(ev.method, ev.path)
        report == validate(func, ev.body)
        io == [client_ok |-> TRUE, first_ok |-> TRUE, second_ok |-> TRUE]
        o == IF report # {}
             THEN [kind |-> "invalid", report |-> report]
             ELSE unified_response(
                      Call(func, ev, Machine, s3, uploads, osenv, io).outcome)
    IN /\ report = {} => Len(created) < MaxCreated
       /\ event' = ev
       /\ route' = func
       /\ outcome' = o
       /\ response' = render(o)
       /\ calls' = IF report = {} THEN 1 ELSE 0
       /\ created' = IF o.kind = "return"
                     THEN Append(created, o.value.data.user) ELSE created
       /\ UNCHANGED <<cacheVars, phase, s3, uploads, osenv, aws>>

NextUsers == \E body \in UserBodies : PostUsers(body)

SpecUsers == InitUsers /\ [][NextUsers]_vars

(***************************************************************************)
(* A client that uploads files and then addresses them by the file_id it   *)
(* was given                                                               *)
(***************************************************************************)
\* The file_id as one URL path segment: its separators percent-encoded.
RECURSIVE quote(_)
quote(file_id) ==
    IF Len(file_id) = 1 THEN file_id[1]
    ELSE file_id[1] \o "%2F" \o quote(Tail(file_id))

\* The request paths a client can form from /files/ and a file_id: the
\* file_id as it is, its separators splitting the path, or as one encoded
\* segment.
PathsOf(file_id) ==
    {<<"files">> \o file_id, <<"files", quote(file_id)>>}

\* The stored key a request path stands for.
Addressed(path, store) ==
    {key \in ObjectKeys(store) : path \in PathsOf(key)}

\* No remote call fails.
Healthy == [client_ok |-> TRUE, first_ok |-> TRUE, second_ok |-> TRUE]

InitKeys ==
    /\ service = "storage"
    /\ env = "k1"
    /\ connections = EmptyCache
    /\ heap = <<>>
    /\ nextId = 1
    /\ thr = [t \in Threads |-> IdleThread]
    /\ phase = "ColdStart"
    /\ InitDispatcher
    /\ s3 \in {[b \in Keys |-> EmptyBucket],
               [b \in Keys |-> {[key |-> <<"f1">>, content |-> <<104, 105>>]}]}
    /\ osenv = [FROM_EMAIL |-> NotSet, ADMIN_EMAIL |-> NotSet]

\* The requests of the client: uploads, the listing, and GET and DELETE on
\* the file_id of a stored object (f1, stored by other means, has no
\* separator).
KeyEvents ==
    {Request("apigw", "POST", <<"files">>, b, <<>>) : b \in FileBodies}
    \cup {Request("apigw", "GET", <<"files">>, Null, <<>>)}
    \cup {Request("apigw", meth, path, Null, <<>>) :
             meth \in {"GET", "DELETE"},
             path \in UNION {PathsOf(key) : key \in ObjectKeys(s3[env])}}

NextKeys ==
    \/ ColdStart(TRUE)
    \/ \E ev \in KeyEvents : Receive(ev)
    \/ RouteMatch
    \/ Validate
    \/ HandleRoute(Healthy)
    \/ Render

SpecKeys == InitKeys /\ [][NextKeys]_vars

(***************************************************************************)
(* Error normalization on its own: a route function that raises a domain   *)
(* error built from arbitrary arguments                                    *)
(***************************************************************************)
Messages == {<<"not allowed">>, <<"no such thing">>, <<>>}
DetailValues == {Null, Arg(NoDetails), Arg({<<"field", "age">>})}
StatusCodes == {Null, Arg(400), Arg(418), Arg(503)}
ResourceArgs == {Null, Arg(""), Arg("User")}

\* A constructor call: the class and its arguments.
Ctor(cls, message, status_code, details, resource_type, resource_id) ==
    [source |-> "raise", cls |-> cls, message |-> message,
     status_code |-> status_code, details |-> details,
     resource_type |-> resource_type, resource_id |-> resource_id]

CtorCalls ==
    {Ctor("AppException", msg, code, d, Null, Null) :
        msg \in Messages, code \in StatusCodes, d \in DetailValues}
    \cup {Ctor(cls, msg, Null, d, Null, Null) :
        cls \in {"ValidationError", "ScheduledTaskError"},
        msg \in Messages, d \in DetailValues}
    \cup {Ctor("NotFoundError", msg, Null, Null, rt, rid) :
        msg \in Messages, rt \in ResourceArgs, rid \in ResourceArgs}

\* The exception a constructor call builds.
Construction(c) ==
    CASE c.cls = "AppException" ->
            AppException(c.message, c.status_code, c.details)
      [] c.cls = "ValidationError" -> ValidationError(c.message, c.details)
      [] c.cls = "NotFoundError" ->
            NotFoundError(c.message, c.resource_type, c.resource_id)
      [] c.cls = "ScheduledTaskError" ->
            ScheduledTaskError(c.message, c.details)

\* A decorated route function raises the exception it constructed.
RaiseInRoute(c) ==
    /\ phase = "Idle"
    /\ event' = c
    /\ route' = "raise"
    /\ outcome' = unified_response(Raise(Construction(c)))
    /\ response' = NoResponse
    /\ calls' = 1
    /\ phase' = "Render"
    /\ UNCHANGED <<cacheVars, s3, uploads, created, osenv, aws>>

NextErr ==
    \/ \E c \in CtorCalls : RaiseInRoute(c)
    \/ Render

SpecErr == InitCache /\ [][NextErr]_vars

(***************************************************************************)
(* The three adapters' caches in one process: _bucket_connections,         *)
(* _queue_connections and _table_connections, each with its own            *)
(* environment variable; constructions and clears run one after the other. *)
(***************************************************************************)
\* The process state the class cls reads and writes.
MachineOf(cls) ==
    [service |-> cls, env |-> env[cls], connections |-> connections[cls],
     heap |-> heap, nextId |-> nextId]

\* The state after cls has run on its part of the process state.
SetMachineOf(cls, m) ==
    /\ connections' = [connections EXCEPT ![cls] = m.connections]
    /\ heap' = m.heap
    /\ nextId' = m.nextId

InitCaches ==
    /\ service = "storage"
    /\ env \in [Adapters -> {"k1", NoKey}]
    /\ connections = [cls \in Adapters |-> EmptyCache]
    /\ heap = <<>>
    /\ nextId = 1
    /\ thr = [t \in Threads |-> IdleThread]
    /\ phase = "Idle"
    /\ InitDispatcher
    /\ s3 = [b \in Keys |-> EmptyBucket]
    /\ osenv = [FROM_EMAIL |-> NotSet, ADMIN_EMAIL |-> NotSet]

\* cls(arg), from __new__ to the end of __init__.
ConstructAdapter(cls, arg, ok) ==
    LET c == Construct(MachineOf(cls), arg, ok) IN
    /\ c.f.pc \in ReturnedPcs
    /\ SetMachineOf(cls, c.m)
    /\ UNCHANGED <<service, env, thr, phase, event, route, outcome, response,
                   calls, s3, uploads, created, osenv, aws>>

\* cls.clear_connection(key)
ClearConnection(cls, key) ==
    /\ SetMachineOf(cls, clear_one(MachineOf(cls), key))
    /\ UNCHANGED <<service, env, thr, phase, event, route, outcome, response,
                   calls, s3, uploads, created, osenv, aws>>

\* cls.clear_connections()
ClearConnections(cls) ==
    /\ SetMachineOf(cls, clear_all(MachineOf(cls)))
    /\ UNCHANGED <<service, env, thr, phase, event, route, outcome, response,
                   calls, s3, uploads, created, osenv, aws>>

\* os.environ[EnvVar(cls)] = value / os.environ.pop(EnvVar(cls))
SetEnvOf(cls, value) ==
    /\ env[cls] # value
    /\ env' = [env EXCEPT ![cls] = value]
    /\ UNCHANGED <<service, connections, heap, nextId, thr, phase, event,
                   route, outcome, response, calls, s3, uploads, created, osenv,
                   aws>>

NextCaches ==
    \/ \E cls \in Adapters, arg \in Keys \cup {NoKey}, ok \in BOOLEAN :
          ConstructAdapter(cls, arg, ok)
    \/ \E cls \in Adapters, key \in Keys : ClearConnection(cls, key)
    \/ \E cls \in Adapters : ClearConnections(cls)
    \/ \E cls \in Adapters, value \in {"k1", NoKey} : SetEnvOf(cls, value)

SpecCaches == InitCaches /\ [][NextCaches]_vars

(***************************************************************************)
(* Connection cache: properties                                            *)
(***************************************************************************)
HeldBy(t) == thr[t].instance

\* C1: in sequential use, two constructions with the same key and no clear of
\* that key since either returned hold the same instance; two constructions
\* with different keys hold different instances; a construction made after
\* a clear of its key holds an instance different from the one handed out
\* before the clear.
ConnectionCacheIdentity ==
    \A t1, t2 \in Threads :
       (thr[t1].pc = "done" /\ thr[t2].pc = "done") =>
          /\ (thr[t1].key = thr[t2].key /\ thr[t1].valid /\ thr[t2].valid)
                => HeldBy(t1) = HeldBy(t2)
          /\ thr[t1].key # thr[t2].key => HeldBy(t1) # HeldBy(t2)
          /\ (thr[t1].key = thr[t2].key /\ ~thr[t1].valid /\ thr[t2].valid)
                => HeldBy(t1) # HeldBy(t2)

\* A caller still holds the instance of a cleared key while the other caller
\* has constructed that key again.
WitnessRecreatedAfterClear ==
    \E t1, t2 \in Threads :
       /\ thr[t1].pc = "done" /\ thr[t2].pc = "done"
       /\ thr[t1].key = thr[t2].key
       /\ ~thr[t1].valid /\ thr[t2].valid
       /\ HeldBy(t1) # HeldBy(t2)

\* C2: under concurrent first access there are never two live handles for one
\* key: every caller whose construction has returned holds the instance the
\* cache retains for its key.
SingleLiveHandlePerKey ==
    \A t \in Threads :
       thr[t].pc = "done" => HeldBy(t) = connections[thr[t].key]

\* C3: a handle obtained before clear_connection / clear_connections keeps
\* the resource name and the client it had when it was handed out.
HeldHandleStaysValid ==
    \A t \in Threads :
       thr[t].pc = "done" =>
          /\ HeldBy(t) \in DOMAIN heap
          /\ heap[HeldBy(t)].name = thr[t].name
          /\ heap[HeldBy(t)].client = thr[t].client

\* A caller holds a fully built handle whose key has been cleared since.
WitnessHeldAcrossClear ==
    \E t \in Threads :
       /\ thr[t].pc = "done" /\ ~thr[t].valid
       /\ connections[thr[t].key] # HeldBy(t)
       /\ heap[HeldBy(t)].client # None
       /\ heap[HeldBy(t)].name = thr[t].key

\* C4: a construction with no explicit key and the environment variable
\* unset ends at once in ValueError, without a second attempt and without
\* touching the cache or allocating an instance.
UnresolvedKeyFails ==
    [][\A t \in Threads :
          (/\ Returned(t) /\ thr'[t] # thr[t]
           /\ thr'[t].pc \in {"new_check", "raised"}
           /\ env = NoKey /\ thr'[t].arg = NoKey)
             => /\ thr'[t].pc = "raised"
                /\ thr'[t].err = "ValueError"
                /\ UNCHANGED <<connections, heap, nextId>>]_vars

\* A construction has failed with ValueError and the cache is still empty.
WitnessValueError ==
    \E t \in Threads :
       /\ thr[t].pc = "raised" /\ thr[t].err = "ValueError"
       /\ env = NoKey
       /\ connections = EmptyCache

\* C24: under concurrent construction for one key, a handle that a
\* construction returns to its caller has its resource name and its client
\* (and, for DynamoDBService, its table) set at the moment it is handed out.
ReturnedHandleIsBuilt ==
    \A t \in Threads :
       thr[t].pc = "done" =>
          /\ thr[t].name # Unset
          /\ thr[t].client # None
          /\ service = "dynamodb" => heap[HeldBy(t)].table # Unset

\* C25: after boto3 raised in the first construction for a key, a later
\* construction for that key does not return normally with a handle that has
\* no client: in sequential use every handle a construction returns has one.
FailedInitDoesNotPoison ==
    \A t \in Threads, k \in Keys :
       (thr[t].pc = "done" /\ thr[t].key = k /\ connections[k] = HeldBy(t))
          => heap[connections[k]].client # None

\* The entries of every adapter's cache other than that of (cls, key) are
\* the same handles, with the same attributes, after the step.
OtherEntriesUnchanged(cls, key) ==
    \A c \in Adapters, k \in Keys :
       (c # cls \/ k # key) =>
          /\ connections'[c][k] = connections[c][k]
          /\ connections[c][k] # None
                => heap'[connections[c][k]] = heap[connections[c][k]]

Answered == phase = "Idle" /\ event.source # "none"

\* The answer is a handled response: a wrapped result of the route function
\* or an AppException formatted by the exception handler.
HandledResponse ==
    /\ Answered
    /\ response.kind = "http"
    /\ \/ outcome.kind = "return"
       \/ outcome.kind = "raise" /\ IsInstance(outcome.exc.cls, "AppException")

\* C5: every handled response has exactly one of data / error present, and
\* success is true exactly when data is present, false exactly when error is.
EnvelopeInvariant ==
    HandledResponse =>
        LET body == response.body IN
        /\ (body.data # Null) # (body.error # Null)
        /\ body.success = TRUE <=> body.data # Null
        /\ body.success = FALSE <=> body.error # Null

\* A download of an object that does not exist was answered with an error
\* envelope.
WitnessErrorEnvelope ==
    /\ HandledResponse
    /\ route = "download_file"
    /\ outcome.kind = "raise"
    /\ outcome.exc.cls = "NotFoundError"
    /\ response.body.success = FALSE
    /\ response.body.error # Null

\* C6: a domain error carries the status code of its kind from construction
\* on: ValidationError 400, NotFoundError 404, ScheduledTaskError 500, plain
\* AppException 500 unless a code is given; rendering does not change it.
StatusFixedByKind ==
    (event.source = "raise" /\ outcome.kind = "raise") =>
        LET status ==
              CASE event.cls = "ValidationError"    -> 400
                [] event.cls = "NotFoundError"      -> 404
                [] event.cls = "ScheduledTaskError" -> 500
                [] event.cls = "AppException"       ->
                      IF event.status_code = Null THEN 500
                      ELSE event.status_code.v
        IN /\ outcome.exc.cls = event.cls
           /\ outcome.exc.status_code = status
           /\ response.kind = "http" => response.status_code = status

\* A plain AppException built with an explicit code has been rendered.
WitnessExplicitStatus ==
    /\ phase = "Idle"
    /\ event.source = "raise"
    /\ event.cls = "AppException"
    /\ event.status_code = Arg(418)
    /\ outcome.exc.status_code = 418
    /\ response.kind = "http"

\* C7: an AppException of any subclass raised by a route function is answered
\* with HTTP status = its status_code and the body
\* {success: false, data: null, error: {type: class name, message, details}}.
AppExceptionResponse ==
    (phase = "Idle" /\ outcome.kind = "raise"
        /\ IsInstance(outcome.exc.cls, "AppException")) =>
        response =
            [kind |-> "http",
             status_code |-> outcome.exc.status_code,
             body |-> [success |-> FALSE,
                       data |-> Null,
                       error |-> [type |-> outcome.exc.cls,
                                  message |-> outcome.exc.message,
                                  details |-> outcome.exc.details]]]

\* A NotFoundError with details has been answered with 404.
WitnessNotFoundRendered ==
    /\ phase = "Idle"
    /\ outcome.kind = "raise"
    /\ outcome.exc.cls = "NotFoundError"
    /\ outcome.exc.details = {<<"resource_type", "User">>}
    /\ response.kind = "http"
    /\ response.status_code = 404

NightlyEmailFailureNormalized ==
    (Answered /\ route = "trigger_nightly_email" /\ outcome.kind = "raise") =>
        /\ response.kind = "http"
        /\ response.status_code \in {400, 500}
        /\ response.body.success = FALSE
        /\ response.body.data = Null
        /\ response.body.error # Null

\* The fields of the current body that violate the schema of the route.
Offending ==
    LET errors == SchemaErrors(route, event.body) IN
    {field \in DOMAIN errors : errors[field] # {}}

RangeChecksInclusive ==
    (/\ event.source = "apigw" /\ route = "create_user"
     /\ phase \in {"Handle", "Render", "Idle"}
     /\ event.body.name.type = "str" /\ event.body.email.type = "str"
     /\ event.body.age.type = "int") =>
        LET accepted == phase = "Handle" \/ calls = 1
            in_range == /\ 0 <= event.body.age.val /\ event.body.age.val <= 150
                        /\ 1 <= event.body.name.val
                        /\ event.body.name.val <= 100
        IN /\ accepted <=> in_range
           /\ (~in_range /\ phase = "Idle") =>
                 response.kind = "http" /\ response.status_code = 422
           /\ (in_range /\ phase = "Idle") =>
                 response.kind = "http" /\ response.status_code = 200

\* A body on both upper bounds (age 150, name of 100 characters) was accepted.
WitnessUpperBoundsAccepted ==
    /\ Answered
    /\ route = "create_user"
    /\ event.body.age = IntVal(150)
    /\ event.body.name = StrVal(100)
    /\ calls = 1
    /\ response.kind = "http"
    /\ response.status_code = 200

\* C12: for every valid create-user body POST /users answers with success,
\* the k-th creation of an execution context returns user_id 1000 + (k - 1),
\* and the returned user echoes name, email, age and is_active of the
\* request (is_active true when left out).
CreatedIdsIncrement ==
    (Answered /\ route = "create_user" /\ calls = 1) =>
        /\ response.kind = "http"
        /\ response.status_code = 200
        /\ response.body.success = TRUE
        /\ LET user == response.body.data.user IN
           /\ user.user_id = 1000 + (created - 1)
           /\ user.name = event.body.name
           /\ user.email = event.body.email
           /\ user.age = event.body.age.val
           /\ user.is_active = (event.body.is_active # BoolVal(FALSE))

\* C13: GET /users/{id} has exactly three outcomes for every id string: a
\* non-numeric id gives 400 with error.type ValidationError and
\* error.details.user_id = id; the id 1000 gives 200 with the demo user; any
\* other numeric id gives 404 with error.type NotFoundError,
\* error.details.resource_type = "User" and error.details.resource_id = id.
GetUserThreeOutcomes ==
    (Answered /\ route = "get_user") =>
        LET id == event.path[2]
            numeric == \A i \in 1..Len(Spell(id)) : Spell(id)[i] \in DecimalChars
        IN /\ response.kind = "http"
           /\ ~numeric =>
                 /\ response.status_code = 400
                 /\ response.body.error.type = "ValidationError"
                 /\ <<"user_id", id>> \in response.body.error.details
           /\ (numeric /\ int(id).value = 1000) =>
                 /\ response.status_code = 200
                 /\ response.body.data =
                       [user_id |-> 1000, name |-> "John Doe",
                        email |-> "john@example.com", age |-> 30,
                        is_active |-> TRUE]
           /\ (numeric /\ int(id).value # 1000) =>
                 /\ response.status_code = 404
                 /\ response.body.error.type = "NotFoundError"
                 /\ response.body.error.details =
                       {<<"resource_type", "User">>, <<"resource_id", id>>}

\* The object the current event names exists in the configured bucket.
ObjectExists ==
    env # NoKey /\ <<event.path[2]>> \in ObjectKeys(s3[env])

\* The route function of the current event runs in this step.
RouteRuns(func) == phase = "Handle" /\ route = func /\ phase' = "Render"

\* The outcome is the domain error cls with this status.
IsDomainError(o, cls, status) ==
    o.kind = "raise" /\ o.exc.cls = cls /\ o.exc.status_code = status

\* The outcome is the 400 error a route function makes of another failure.
IsWrappedFailure(o, prefix) ==
    IsDomainError(o, "ValidationError", 400) /\ o.exc.message[1] = prefix

\* C14 as stated: DELETE /files/{id} on a key that is not in the object
\* store gives 404 NotFoundError; on an existing key it succeeds and removes
\* the object (so that a second DELETE gives 404).
DeleteMissingIs404 ==
    [][RouteRuns("delete_file") =>
          IF ObjectExists
          THEN outcome'.kind = "return" /\ <<event.path[2]>> \notin ObjectKeys(s3'[env])
          ELSE IsDomainError(outcome', "NotFoundError", 404)]_vars

\* C14, amended: DELETE /files/{id} on a key that is not in the object store
\* never succeeds and leaves the store as it is: it gives 404 NotFoundError,
\* or the 400 of a failed adapter construction or existence check; on an
\* existing key a DELETE that succeeds has removed the object, and one that
\* does not succeed is such a 400 and leaves the store as it is.
DeleteMissingNeverSucceeds ==
    [][RouteRuns("delete_file") =>
          IF ObjectExists
          THEN \/ /\ outcome'.kind = "return"
                  /\ s3' = [s3 EXCEPT ![env] =
                              {o \in @ : o.key # <<event.path[2]>>}]
               \/ /\ IsWrappedFailure(outcome', "Failed to delete file: ")
                  /\ s3' = s3
          ELSE /\ \/ IsDomainError(outcome', "NotFoundError", 404)
                  \/ IsWrappedFailure(outcome', "Failed to delete file: ")
               /\ s3' = s3]_vars

\* A DELETE of an object that is gone was answered with 404.
WitnessDeleteMissing ==
    /\ Answered
    /\ route = "delete_file"
    /\ ~ObjectExists
    /\ env # NoKey
    /\ response.kind = "http"
    /\ response.status_code = 404
    /\ response.body.error.type = "NotFoundError"

\* The registered routes whose method is equal and whose rule matches.
MatchingRoutes(method, path) ==
    {i \in 1..Len(Routes) :
        Routes[i].method = method /\ Matches(Routes[i].rule, path)}

\* Methods and paths of at most two segments a client may send.
Methods == {"GET", "POST", "PUT", "DELETE"}
Segments ==
    {"health", "users", "hello", "files", "tasks", "nightly-email", "1000",
     "f1", "missing"}
Paths == {<<a>> : a \in Segments} \cup {<<a, b>> : a, b \in Segments}

\* C17: route resolution is unambiguous and total: at most one registered
\* route matches a (method, path); the route function that is resolved is
\* the one of that route; a request that matches none is answered, without
\* any route function running, with the 404 routing error, which is not a
\* {success, data, error} envelope.
RouteResolutionUnambiguous ==
    /\ phase = "ColdStart" =>
          \A method \in Methods, path \in Paths :
             Cardinality(MatchingRoutes(method, path)) <= 1
    /\ (event.source \in {"apigw", "eventbridge"} /\ phase # "RouteMatch") =>
          LET hits == MatchingRoutes(event.method, event.path) IN
          /\ Cardinality(hits) <= 1
          /\ \A i \in hits : route = Routes[i].func
          /\ hits = {} =>
                /\ route = ""
                /\ calls = 0
                /\ phase \in {"Render", "Idle"}
                /\ phase = "Idle" =>
                      response = [kind |-> "http", status_code |-> 404,
                                  body |-> [statusCode |-> 404,
                                            message |-> "Not found"]]

\* A request for a path without route was answered with the routing 404.
WitnessNoRoute ==
    /\ Answered
    /\ event.method = "GET"
    /\ event.path = <<"missing">>
    /\ route = ""
    /\ response.kind = "http"
    /\ response.status_code = 404
    /\ DOMAIN response.body = {"statusCode", "message"}

\* The text each file route function puts before the original error text.
FailurePrefix(func) ==
    CASE func = "upload_file"   -> "Failed to upload file: "
      [] func = "download_file" -> "Failed to download file: "
      [] func = "list_files"    -> "Failed to list files: "
      [] func = "delete_file"   -> "Failed to delete file: "

\* str(e) of the failures of decoding, adapter construction and remote calls.
FailureTexts ==
    {<<"Incorrect padding">>, <<"ValueError">>, <<"BotoError">>,
     <<"s3_client">>, <<"InternalError">>, <<"NoSuchKey">>}

\* C18: in the file endpoints a missing object gives 404: download_file and
\* delete_file raise NotFoundError exactly when the object does not exist and
\* the existence check answered, and it is rendered as it was raised; every
\* other failure of the four file route functions (decode, adapter
\* construction, remote call) is a 400 ValidationError whose message is the
\* route's prefix followed by the original error text; nothing else leaves
\* them.
FileRouteFailures ==
    [][/\ (phase = "Handle" /\ UsesStorage(route) /\ phase' = "Render") =>
             \/ outcome'.kind = "return"
                   /\ (route \in {"download_file", "delete_file"} => ObjectExists)
             \/ /\ IsDomainError(outcome', "NotFoundError", 404)
                /\ route \in {"download_file", "delete_file"}
                /\ ~ObjectExists
                /\ outcome'.exc.message
                      = <<"File not found: ", <<event.path[2]>>>>
             \/ /\ IsWrappedFailure(outcome', FailurePrefix(route))
                /\ outcome'.exc.message[2] \in FailureTexts
                /\ (route = "upload_file" /\ event.body.content.text = "aGk")
                      => outcome'.exc.message[2] = <<"Incorrect padding">>
                /\ (env = NoKey /\ route # "upload_file")
                      => outcome'.exc.message[2] = <<"ValueError">>
       /\ (phase = "Render" /\ UsesStorage(route) /\ outcome.kind = "raise"
              /\ phase' = "Idle") =>
             response' =
                [kind |-> "http",
                 status_code |-> outcome.exc.status_code,
                 body |-> [success |-> FALSE, data |-> Null,
                           error |-> [type |-> outcome.exc.cls,
                                      message |-> outcome.exc.message,
                                      details |-> outcome.exc.details]]]]_vars

\* An upload with undecodable content was answered with the 400 that embeds
\* the decoder's error text.
WitnessDecodeFailure ==
    /\ Answered
    /\ route = "upload_file"
    /\ outcome.kind = "raise"
    /\ response.kind = "http"
    /\ response.status_code = 400
    /\ response.body.error.type = "ValidationError"
    /\ response.body.error.message
          = <<"Failed to upload file: ", <<"Incorrect padding">>>>

\* C19: POST /tasks/nightly-email is answered by its outcome alone, for an
\* EventBridge event as for an API Gateway request: when the send succeeds
\* the answer is 200 with success = true, error = null and data {message,
\* message_id, recipient}, recipient being the configured admin address; an
\* AppException on that path is rendered as the error envelope with its
\* status code.
ScheduledRenderedAlike ==
    (Answered /\ route = "trigger_nightly_email") =>
        /\ outcome.kind = "return" =>
              /\ response.kind = "http"
              /\ response.status_code = 200
              /\ response.body.success = TRUE
              /\ response.body.error = Null
              /\ DOMAIN response.body.data
                    = {"message", "message_id", "recipient"}
              /\ response.body.data.recipient =
                    (IF osenv.ADMIN_EMAIL = NotSet THEN "admin@example.com"
                     ELSE osenv.ADMIN_EMAIL)
              /\ response.body.data.message =
                    <<"Email sent successfully. MessageId: ",
                      response.body.data.message_id>>
        /\ (outcome.kind = "raise"
               /\ IsInstance(outcome.exc.cls, "AppException")) =>
              /\ response.kind = "http"
              /\ response.status_code = outcome.exc.status_code
              /\ response.body.success = FALSE
              /\ response.body.error.type = outcome.exc.cls

\* The scheduled event was answered with 200 and the configured recipient.
WitnessScheduledSuccess ==
    /\ Answered
    /\ event.source = "eventbridge"
    /\ route = "trigger_nightly_email"
    /\ osenv.ADMIN_EMAIL = "ops@example.com"
    /\ response.kind = "http"
    /\ response.status_code = 200
    /\ response.body.data.recipient = "ops@example.com"

\* C23: the bucket name and the admin recipient are read once, at cold start
\* or first use: after a change of DATA_BUCKET or ADMIN_EMAIL that follows the
\* first read, every StorageService() a request builds is still bound to the
\* bucket read at cold start, and every nightly report still goes to the
\* recipient that was configured at the first read.
ConfigurationReadOnce ==
    /\ \A k \in Keys : connections[k] # None => k = ColdStartBucket
    /\ (Answered /\ route = "trigger_nightly_email" /\ outcome.kind = "return")
          => response.body.data.recipient = ColdStartAdmin

\* The order of the dispatcher states.
PhaseOrder ==
    {<<"ColdStart", "Idle">>, <<"Idle", "RouteMatch">>,
     <<"RouteMatch", "Validate">>, <<"RouteMatch", "Render">>,
     <<"Validate", "Handle">>, <<"Validate", "Render">>,
     <<"Handle", "Render">>, <<"Render", "Idle">>}

\* C20: every invocation walks Idle, RouteMatch, Validate, Handle, Render,
\* Idle, skipping forward only when no route matches or the body violates
\* the schema; a route function runs only in Handle, after its validation
\* passed, and once; an invocation starts without anything of the previous
\* one (route, outcome, response, call count) and changes nothing of the
\* process but the connection cache; and every started invocation ends
\* in Idle with a response or a propagated exception.
DispatcherWalk ==
    /\ [][/\ phase' # phase => <<phase, phase'>> \in PhaseOrder
          /\ (phase = "RouteMatch" /\ phase' = "Render") =>
                MatchingRoutes(event.method, event.path) = {}
          /\ (phase = "Validate" /\ phase' = "Render") => Offending # {}
          /\ phase' = "Handle" => Offending = {}
          /\ calls' # calls =>
                \/ phase = "Idle" /\ phase' = "RouteMatch" /\ calls' = 0
                \/ /\ phase = "Handle" /\ phase' = "Render"
                   /\ calls = 0 /\ calls' = 1
                   /\ Offending = {}
          /\ (phase = "Idle" /\ phase' = "RouteMatch") =>
                /\ route' = "" /\ outcome' = NoOutcome
                /\ response' = NoResponse /\ calls' = 0
                /\ UNCHANGED <<cacheVars, s3, osenv>>
          /\ phase # "Handle" => UNCHANGED <<s3, osenv, thr>>
          /\ phase \notin {"Handle", "ColdStart"} =>
                UNCHANGED <<connections, heap, nextId>>
          /\ UNCHANGED <<osenv, thr, service, env>>
          /\ (phase = "Render" /\ phase' = "Idle") =>
                response'.kind \in {"http", "propagated"}]_vars
    /\ (phase \in {"RouteMatch", "Validate", "Handle", "Render"})
          ~> (phase = "Idle" /\ response.kind \in {"http", "propagated"})

\* An invocation that skipped the route function has ended in Idle, and the
\* connection cache still holds the handle of an earlier invocation.
WitnessWalkedWithShortcut ==
    /\ Answered
    /\ outcome.kind = "invalid"
    /\ calls = 0
    /\ response.kind = "http"
    /\ env # NoKey
    /\ connections[env] # None

(***************************************************************************)
(* Object store: properties                                                *)
(***************************************************************************)
\* The objects of the configured bucket in a store.
BucketOf(store) == IF env = NoKey THEN EmptyBucket ELSE store[env]

\* The bytes stored under a key.
StoredBytes(store, key) ==
    (CHOOSE o \in BucketOf(store) : o.key = key).content

\* C15: upload_file stores exactly the decoded bytes B under the key K it
\* returns and reports size = len(B); every later call except a successful
\* delete of K leaves the object as it is; and a download_file(K) that
\* returns gives exactly the stored B with size = len(B), a stored key never
\* being reported as missing.
UploadDownloadRoundTrip ==
    [][/\ (event'.func = "upload_file" /\ outcome'.kind = "return") =>
             LET data == outcome'.value.data
                 B == b64decode(event'.arg.content.text).value
             IN /\ data.size = Len(B)
                /\ {o \in BucketOf(s3') : o.key = data.file_id}
                      = {[key |-> data.file_id, content |-> B]}
       /\ (event'.func = "download_file"
              /\ event'.arg \in ObjectKeys(BucketOf(s3))) =>
             \/ /\ outcome'.kind = "return"
                /\ outcome'.value.data.file_id = event'.arg
                /\ b64decode(outcome'.value.data.content).value
                      = StoredBytes(s3, event'.arg)
                /\ outcome'.value.data.size = Len(StoredBytes(s3, event'.arg))
             \/ IsWrappedFailure(outcome', "Failed to download file: ")
       /\ \A o \in BucketOf(s3) :
             \/ o \in BucketOf(s3')
             \/ /\ event'.func = "delete_file" /\ event'.arg = o.key
                /\ outcome'.kind = "return"]_vars

\* The bytes "hi" uploaded under the generated key have been downloaded.
WitnessRoundTrip ==
    /\ event.source = "direct"
    /\ event.func = "download_file"
    /\ event.arg = <<"uploads", "1", "a.txt">>
    /\ outcome.kind = "return"
    /\ outcome.value.data.content = "aGk="
    /\ outcome.value.data.size = 2
    /\ StoredBytes(s3, <<"uploads", "1", "a.txt">>) = <<104, 105>>

(***************************************************************************)
(* Adapter methods: properties                                             *)
(***************************************************************************)
\* The method of this step issued at most one request.
AtMostOneRequest == aws'.requests - aws.requests \in {0, 1}

\* The method of this step gave its caller the exception of its SDK call.
ReRaisedUnchanged == outcome'.kind = "raise" /\ outcome'.exc = event'.failure

\* C21 as stated: every adapter operation issues its remote call at most
\* once, and when that call fails the failure is logged and re-raised to the
\* caller unchanged; no operation returns normally after a failed call.
RemoteFailureNeverSwallowed ==
    [][event'.source = "adapter" =>
          /\ AtMostOneRequest
          /\ event'.failure # Null =>
                /\ ReRaisedUnchanged
                /\ response'.level \in {"error", "warning"}]_vars

\* C21, amended: every adapter operation issues its remote call at most once
\* and never retries it.  A ClientError of that call is logged and re-raised
\* unchanged, with the provider's code, except that file_exists answers the
\* ClientError with code "404" by returning False without a log record; an
\* exception that is not a ClientError (no connection) leaves the method
\* unchanged too, but without a log record.  No other operation returns
\* normally after a failed call.
RemoteFailureReRaised ==
    [][event'.source = "adapter" =>
          /\ AtMostOneRequest
          /\ event'.failure # Null =>
                IF event'.op = "file_exists"
                   /\ event'.failure = ClientError("404")
                THEN /\ outcome'.kind = "return"
                     /\ outcome'.value = FALSE
                     /\ response'.level = "none"
                ELSE /\ ReRaisedUnchanged
                     /\ aws'.requests = aws.requests + 1
                     /\ response'.level =
                           (IF event'.failure.cls = "ClientError"
                            THEN IF event'.failure = ClientError("NoSuchKey")
                                 THEN "warning" ELSE "error"
                            ELSE "none")
                     /\ UNCHANGED s3
                     /\ aws'.queue = aws.queue /\ aws'.table = aws.table]_vars

\* A download refused by the provider was re-raised with the provider's
\* code after a single request.
WitnessClientErrorReRaised ==
    /\ event.source = "adapter"
    /\ event.op = "download_file"
    /\ event.fault = "InternalError"
    /\ outcome = Raise(ClientError("InternalError"))
    /\ response.level = "error"
    /\ aws.requests = 1

\* The invocation t has finished with this kind of result.
Succeeded(t) == thr[t].pc = "done" /\ thr[t].result.kind = "return"
EndedWith(t, cls) ==
    /\ thr[t].pc = "done"
    /\ thr[t].result.kind = "raise"
    /\ thr[t].result.exc.cls = cls

\* C22: two concurrent DELETE invocations on the same existing key: once
\* both have finished, each has answered with success, with the 404
\* NotFoundError or, after a failed remote call, with the 400 wrapper; the
\* key is absent whenever one of them answered success, and when no remote
\* call failed at least one did (both may: no check excludes the other's
\* delete).
RacingDeletesRemoveKey ==
    (\A t \in Threads : thr[t].pc = "done") =>
       /\ \A t \in Threads :
             \/ Succeeded(t)
             \/ EndedWith(t, "NotFoundError")
             \/ EndedWith(t, "ValidationError")
       /\ (\E t \in Threads : Succeeded(t))
             => RacedKey \notin ObjectKeys(s3[env])
       /\ (\A t \in Threads : ~EndedWith(t, "ValidationError"))
             => /\ \E t \in Threads : Succeeded(t)
                /\ RacedKey \notin ObjectKeys(s3[env])

\* Both existence checks saw the key and both invocations answered success.
WitnessBothDeleted ==
    /\ \A t \in Threads : Succeeded(t)
    /\ RacedKey \notin ObjectKeys(s3[env])
    /\ aws.requests = 4

(***************************************************************************)
(* User creation: properties                                               *)
(***************************************************************************)
\* C27: any two successful POST /users invocations of one execution context
\* return distinct user ids, the later one greater than the earlier one.
UserIdsIncrease ==
    \A i, j \in DOMAIN created :
        i < j => created[j].user_id > created[i].user_id

\* What GET /users/{id} answers in an execution context that has created
\* nothing: 200 with the demo user exactly when the id is the number 1000.
AnswersAsOnFreshStart(id, resp) ==
    LET found == resp.kind = "http" /\ resp.status_code = 200 IN
    /\ found <=> (isdigit(id) /\ int(id).ok /\ int(id).value = 1000)
    /\ found => resp.body.data =
                    [user_id |-> 1000, name |-> "John Doe",
                     email |-> "john@example.com", age |-> 30,
                     is_active |-> TRUE]
    /\ ~found /\ resp.kind = "http" => resp.status_code \in {400, 404}

\* C28: POST /users changes no process-wide state: the step that runs
\* create_user leaves the connection cache, its handles, the environment
\* and the bucket as they were, and whatever has been created GET
\* /users/{id} is answered as on a fresh start, only 1000 being found, with
\* the demo data.
CreateUserChangesNothing ==
    [][/\ (phase = "Handle" /\ route = "create_user") =>
              UNCHANGED <<cacheVars, s3, uploads, osenv, aws>>
       /\ (phase = "Render" /\ route = "get_user") =>
              AnswersAsOnFreshStart(event.path[2], response')]_vars

WitnessLookupAfterCreation ==
    /\ Answered
    /\ route = "get_user"
    /\ created >= 1
    /\ env # NoKey
    /\ connections[env] # None
    /\ response.kind = "http"
    /\ response.status_code = 200

\* The create-user schema accepts the body: no field is reported.
AcceptedByRequestSchema(body) ==
    \A f \in DOMAIN UserCreateRequestErrors(body) :
        UserCreateRequestErrors(body)[f] = {}

\* C29: every payload the create-user request schema accepts satisfies the
\* constraints of the User domain model (a name of 1 to 100 characters, an
\* age from 0 to 150, a boolean is_active), so for a validated request the
\* route function builds the User and the UserCreateResponse and the
\* creation is answered with 200.
ValidatedRequestBuildsUser ==
    (event.source # "none" /\ AcceptedByRequestSchema(event.body)) =>
        /\ outcome.kind = "return"
        /\ LET user == outcome.value.data.user IN
           /\ user.name.type = "str"
           /\ user.name.val >= 1 /\ user.name.val <= 100
           /\ user.email.type = "str"
           /\ user.age >= 0 /\ user.age <= 150
           /\ user.is_active \in BOOLEAN
        /\ outcome.value.data.status = "success"
        /\ response.kind = "http"
        /\ response.status_code = 200

WitnessLargestUserBuilt ==
    /\ event.source # "none"
    /\ event.body.name = StrVal(100)
    /\ event.body.age = IntVal(150)
    /\ event.body.is_active = BoolVal(FALSE)
    /\ outcome.kind = "return"
    /\ Len(created) = 1
    /\ created[1].is_active = FALSE

(***************************************************************************)
(* File ids as path parameters: properties                                 *)
(***************************************************************************)
\* C30: a file_id returned by POST /files can be used as the path parameter
\* of GET and DELETE /files/{file_id}: the request resolves to
\* download_file or delete_file, and with no remote failure the download is
\* answered 200 with the uploaded content and the deletion 200.
FileIdAddressesObject ==
    [][/\ (phase = "RouteMatch" /\ Addressed(event.path, s3[env]) # {}) =>
              route' = IF event.method = "GET" THEN "download_file"
                       ELSE "delete_file"
       /\ (phase = "Render" /\ Addressed(event.path, s3[env]) # {}) =>
              /\ response'.kind = "http"
              /\ response'.status_code = 200
              /\ event.method = "GET" =>
                    \A key \in Addressed(event.path, s3[env]) :
                       \E o \in s3[env] :
                          /\ o.key = key
                          /\ response'.body.data.content =
                                b64encode(o.content)]_vars

(***************************************************************************)
(* Batch operations: properties                                            *)
(***************************************************************************)
\* The batch call of this step failed fast: ValueError, nothing requested.
FailedFast ==
    /\ outcome'.kind = "raise"
    /\ outcome'.exc.cls = "ValueError"
    /\ aws' = aws

\* C16 as stated: send_message_batch with more than 10 messages,
\* delete_message_batch with more than 10 receipt handles, batch_write with
\* more than 25 items and batch_get with more than 100 keys raise an error
\* before any remote call, leaving the remote state unchanged.
OversizeBatchFailsFast ==
    [][event'.source = "batch" =>
          /\ (event'.op \in {"send_message_batch", "delete_message_batch"}
                 /\ event'.n > 10) => FailedFast
          /\ (event'.op = "batch_write" /\ event'.n > 25) => FailedFast
          /\ (event'.op = "batch_get" /\ event'.n > 100) => FailedFast]_vars

\* C16, amended: send_message_batch fails fast when there are more messages
\* than max_batch_size (10 unless the caller passes another limit);
\* delete_message_batch above 10, batch_write above 25 and batch_get above
\* 100 fail fast, all with ValueError before any remote call.
OversizeBatchFailsFastAtLimit ==
    [][event'.source = "batch" =>
          /\ (event'.op = "send_message_batch"
                 /\ event'.n > (IF event'.max_batch_size = Null THEN 10
                                ELSE event'.max_batch_size.v)) => FailedFast
          /\ (event'.op = "delete_message_batch" /\ event'.n > 10) => FailedFast
          /\ (event'.op = "batch_write" /\ event'.n > 25) => FailedFast
          /\ (event'.op = "batch_get" /\ event'.n > 100) => FailedFast]_vars

\* A batch write of 26 items was refused after a smaller one had been sent.
WitnessOversizeRefused ==
    /\ event.source = "batch"
    /\ event.op = "batch_write"
    /\ event.n = 26
    /\ outcome.kind = "raise"
    /\ outcome.exc.cls = "ValueError"
    /\ aws.requests = 1
    /\ aws.table = 1..25

====
